---- MODULE Spec2Model ----
(***************************************************************************)
(* A model of the causal-consistency tracker (core/src/consistency.rs),    *)
(* the capability verifier and the zome-call bridge                        *)
(* (core/src/nucleus/actions/call_zome_function.rs).                       *)
(*                                                                         *)
(* Options (Rust Option<T>) are sequences of length at most one:           *)
(* None is << >> and Some(x) is << x >>.                                   *)
(***************************************************************************)
EXTENDS Integers, Sequences, FiniteSets, TLC

VARIABLES
    commit_cache,   \* ConsistencyModel.commit_cache : Address -> signal
    agent_id,       \* ConsistencyModel.agent_id : Option<AgentId>
    ctx,            \* what the Context offers: [state, dna] availability
    trace,          \* history: every processed action with what it returned
    vg_grant,       \* verifier: the grant under examination
    vg_call,        \* verifier: the call under examination
    vg_result,      \* verifier: Option of verify_grant's outcome
    sig_result,     \* verifier: Option of verify_call_sig's outcome
    calls,          \* bridge: the ZomeFnCall of every call_zome_function invocation
    pc,             \* bridge: where each invocation stands in CallerSteps (0: returned)
    outcome,        \* bridge: Option of what each invocation returned
    worker,         \* bridge: each invocation's ribosome thread
    action_channel, \* bridge: actions sent and not yet reduced, in order
    channel_open,   \* bridge: whether the action channel still has its receiver
    stream,         \* bridge: every action the channel accepted, in order
    signals,        \* bridge: the consistency signals emitted so far, in order
    zome_call_results, \* bridge: nucleus state, the result stored per call
    vc_call,        \* validation: the call under examination
    vc_result,      \* validation: Option of validate_call's outcome
    cc_result,      \* validation: Option of check_capability's outcome
    ns_network,     \* NetworkState.network : Option of the P2pNetwork handle
    ns_dna_address, \* NetworkState.dna_address : Option<Address>
    ns_agent_id,    \* NetworkState.agent_id : Option<String>
    ns_results,     \* what the calls of NetworkState::initialized returned, in order
    ex_signal,      \* export: the native signal handed to the conversion
    ex_exported,    \* export: Option of the converted signal
    keys,           \* Keystore.keys : identifier -> Secret
    ks_last,        \* keystore: Option of the last operation with what it returned
    eq_states,      \* NetworkState values alive, each with the new() call it stems from
    eq_next_id      \* snowflake: the next ProcessUniqueId

cmVars == <<commit_cache, agent_id, ctx, trace>>

vgVars == <<vg_grant, vg_call, vg_result, sig_result>>

brVars == <<calls, pc, outcome, worker, action_channel, channel_open, stream, signals,
           zome_call_results>>

vcVars == <<vc_call, vc_result, cc_result>>

nsVars == <<ns_network, ns_dna_address, ns_agent_id, ns_results>>

exVars == <<ex_signal, ex_exported>>

ksVars == <<keys, ks_last>>

eqVars == <<eq_states, eq_next_id>>

vars == <<commit_cache, agent_id, ctx, trace, vg_grant, vg_call, vg_result, sig_result,
         calls, pc, outcome, worker, action_channel, channel_open, stream, signals,
         zome_call_results, vc_call, vc_result, cc_result,
         ns_network, ns_dna_address, ns_agent_id, ns_results, ex_signal, ex_exported,
         keys, ks_last, eq_states, eq_next_id>>

None == << >>
Some(x) == << x >>
IsSome(o) == Len(o) = 1
Unwrap(o) == o[1]

(***************************************************************************)
(* Bounds                                                                  *)
(***************************************************************************)
\* number of actions the consistency model processes in one behaviour
MaxSteps == 3

\* number of call_zome_function invocations in flight
NCalls == 2

\* number of calls of NetworkState::initialized in one behaviour
MaxChecks == 2

\* number of actions processed in one behaviour over the full range of entries
MaxCommitSteps == 2

\* longest pending list of a signal handed to the conversion
MaxPending == 2

\* number of NetworkState values alive at once
MaxStates == 3

(***************************************************************************)
(* Entries and addresses                                                   *)
(***************************************************************************)
\* Entry variants the tracker distinguishes.  An App entry carries its entry
\* type, which the DNA declares public or private.
MkEntry(kind, tag) == [kind |-> kind, tag |-> tag]

AppPublic == MkEntry("App", "public_type")
AppPrivate == MkEntry("App", "private_type")
DeletionEntry == MkEntry("Deletion", "del")
LinkAddEntry == MkEntry("LinkAdd", "link")
LinkRemoveEntry == MkEntry("LinkRemove", "link")
AgentEntry == MkEntry("AgentId", "alice")
OldEntry == MkEntry("App", "old_version")

Entries == {AppPublic, AppPrivate, DeletionEntry, LinkAddEntry, LinkRemoveEntry, AgentEntry}

\* AddressableContent::address: the hash of the content, one per content
address(entry) == [hash |-> entry]

Addresses == {address(e) : e \in Entries}

\* the address a crud-link points to (the entry being updated or deleted)
CrudTarget == address(OldEntry)

CrudLinks == {None, Some(CrudTarget)}

\* the LinkData held by a LinkAdd entry
link_data(entry) == [link_of |-> entry.tag]

(***************************************************************************)
(* Zome function calls (the part the consistency model reads)              *)
(***************************************************************************)
\* ZomeFnCall::new gives every call descriptor a process-unique id
MkCall(id, zome, fn, cap, params) ==
    [id |-> id, zome_name |-> zome, fn_name |-> fn, cap |-> cap, parameters |-> params]

\* ZomeFnCall::id
call_id(call) == call.id

\* ExecuteZomeFnResponse::new
ExecuteZomeFnResponse(call, result) == [call |-> call, result |-> result]

(***************************************************************************)
(* ConsistencyEvent, ConsistencySignal                                     *)
(***************************************************************************)
EvPublish(a) == [ev |-> "Publish", addr |-> a]
EvAddPendingValidation(a) == [ev |-> "AddPendingValidation", addr |-> a]
EvSignalZomeFunctionCall(id) == [ev |-> "SignalZomeFunctionCall", id |-> id]
EvHold(a) == [ev |-> "Hold", addr |-> a]
EvUpdateEntry(old, new) == [ev |-> "UpdateEntry", old |-> old, new |-> new]
EvRemoveEntry(old, new) == [ev |-> "RemoveEntry", old |-> old, new |-> new]
EvAddLink(link) == [ev |-> "AddLink", link |-> link]
EvRemoveLink(entry) == [ev |-> "RemoveLink", entry |-> entry]
EvRemovePendingValidation(a) == [ev |-> "RemovePendingValidation", addr |-> a]
EvReturnZomeFunctionResult(id) == [ev |-> "ReturnZomeFunctionResult", id |-> id]

\* mutant of new_terminal: the event is listed as pending on itself
new_terminal_self_pending(event) ==
    [event |-> event, pending |-> << [event |-> event, group |-> "Source"] >>]

\* ConsistencySignal::new_terminal
new_terminal(event) == [event |-> event, pending |-> << >>]

\* mutant of new_pending: the group given is ignored
new_pending_as_validators(event, group, pending_events) ==
    [event |-> event,
     pending |-> [i \in 1..Len(pending_events) |->
                    [event |-> pending_events[i], group |-> "Validators"]]]

\* ConsistencySignal::new_pending: every pending event gets the one group
new_pending(event, group, pending_events) ==
    [event |-> event,
     pending |-> [i \in 1..Len(pending_events) |->
                    [event |-> pending_events[i], group |-> group]]]

\* serde_json::to_string of a ConsistencyEvent: the text made of the variant's
\* name followed by the variant's data
to_string(e) ==
    [json |->
       CASE e.ev \in {"Publish", "AddPendingValidation", "Hold", "RemovePendingValidation"}
               -> << e.ev, e.addr >>
         [] e.ev \in {"SignalZomeFunctionCall", "ReturnZomeFunctionResult"}
               -> << e.ev, e.id >>
         [] e.ev \in {"UpdateEntry", "RemoveEntry"} -> << e.ev, e.old, e.new >>
         [] e.ev = "AddLink" -> << e.ev, e.link >>
         [] e.ev = "RemoveLink" -> << e.ev, e.entry >>]

\* mutant of From: the pending events come out in reverse order
From_reversed(signal) ==
    [event |-> to_string(signal.event),
     pending |-> [i \in 1..Len(signal.pending) |->
                    [event |-> to_string(signal.pending[Len(signal.pending) + 1 - i].event),
                     group |-> signal.pending[Len(signal.pending) + 1 - i].group]]]

\* lines 36-52: From<ConsistencySignalE> for ConsistencySignal<String>
From(signal) ==
    [event |-> to_string(signal.event),
     pending |-> [i \in 1..Len(signal.pending) |->
                    [event |-> to_string(signal.pending[i].event),
                     group |-> signal.pending[i].group]]]

(***************************************************************************)
(* ConsistencyModel::process_action                                        *)
(***************************************************************************)
\* CanPublish for EntryType: the Dna entry and capability grants stay local,
\* other system entries are published, an app entry is published when the
\* DNA declares its entry type public.
can_publish(entry, c) ==
    CASE entry.kind \in {"Dna", "CapTokenGrant"} -> FALSE
      [] entry.kind = "App" -> entry.tag # "private_type"
      [] OTHER -> TRUE

\* mutant of do_cache: cache only what is known to be publishable
do_cache_strict(entry, c) == c.state /\ c.dna /\ can_publish(entry, c)

\* lines 121-123: cache unless the entry is known not to be publishable
do_cache(entry, c) == (~c.state) \/ (~c.dna) \/ can_publish(entry, c)

\* mutant of commit_meta: the App arm is missing, an update adds no effect
commit_meta_without_update(entry, crud_link) ==
    IF IsSome(crud_link)
    THEN CASE entry.kind = "Deletion" -> Some(EvRemoveEntry(Unwrap(crud_link), address(entry)))
           [] entry.kind = "LinkAdd" -> Some(EvAddLink(link_data(entry)))
           [] entry.kind = "LinkRemove" -> Some(EvRemoveLink(entry))
           [] OTHER -> None
    ELSE None

\* lines 130-138: the type-specific effect, only with a crud-link
commit_meta(entry, crud_link) ==
    IF IsSome(crud_link)
    THEN CASE entry.kind = "App" -> Some(EvUpdateEntry(Unwrap(crud_link), address(entry)))
           [] entry.kind = "Deletion" -> Some(EvRemoveEntry(Unwrap(crud_link), address(entry)))
           [] entry.kind = "LinkAdd" -> Some(EvAddLink(link_data(entry)))
           [] entry.kind = "LinkRemove" -> Some(EvRemoveLink(entry))
           [] OTHER -> None
    ELSE None

\* mutant of commit_signal: the Hold is not predicted
commit_signal_without_hold(entry, crud_link) ==
    new_pending(EvPublish(address(entry)), "Validators", commit_meta(entry, crud_link))

\* mutant of commit_signal: the type-specific effect is listed before the Hold
commit_signal_effect_first(entry, crud_link) ==
    LET pending == commit_meta(entry, crud_link) \o << EvHold(address(entry)) >>
    IN  new_pending(EvPublish(address(entry)), "Validators", pending)

\* lines 128-145: the signal to emit when the entry is finally published
commit_signal(entry, crud_link) ==
    LET pending == << EvHold(address(entry)) >> \o commit_meta(entry, crud_link)
    IN  new_pending(EvPublish(address(entry)), "Validators", pending)

\* mutant of cache_insert: entry().or_insert(), the first value stays
cache_insert_keeps_first(cache, a, signal) ==
    [x \in (DOMAIN cache) \cup {a} |-> IF x \in DOMAIN cache THEN cache[x] ELSE signal]

\* HashMap::insert: the new value replaces an old one
cache_insert(cache, a, signal) ==
    [x \in (DOMAIN cache) \cup {a} |-> IF x = a THEN signal ELSE cache[x]]

\* mutant of cache_remove: nothing is evicted
cache_remove_nothing(cache, a) == cache

\* HashMap::remove: the map without the key
cache_remove(cache, a) == [x \in (DOMAIN cache) \ {a} |-> cache[x]]

\* mutant of cache_take: a Publish with nothing cached gets a signal of its own
cache_take_or_terminal(cache, a) ==
    IF a \in DOMAIN cache THEN Some(cache[a]) ELSE Some([event |-> EvPublish(a), pending |-> << >>])

\* HashMap::remove's return value
cache_take(cache, a) == IF a \in DOMAIN cache THEN Some(cache[a]) ELSE None

\* the result of process_action: the model's new fields and the returned signal
Outcome(cache, agent, out) == [cache |-> cache, agent_id |-> agent, out |-> out]

\* mutant of process_commit_agent: an agent id once recorded stays
process_commit_agent_keeps_first(m, entry) ==
    Outcome(m.cache, IF IsSome(m.agent_id) THEN m.agent_id ELSE Some(entry.tag), None)

\* lines 111-114: Commit of the agent entry
process_commit_agent(m, entry) == Outcome(m.cache, Some(entry.tag), None)

\* mutant of process_commit: the signal is emitted at Commit already
process_commit_emits(m, c, entry, crud_link) ==
    IF do_cache(entry, c)
    THEN Outcome([x \in (DOMAIN m.cache) \cup {address(entry)} |->
                     IF x = address(entry)
                     THEN [event |-> EvPublish(address(entry)),
                           pending |-> << [event |-> EvHold(address(entry)),
                                           group |-> "Validators"] >>]
                     ELSE m.cache[x]],
                 m.agent_id,
                 Some([event |-> EvPublish(address(entry)),
                       pending |-> << [event |-> EvHold(address(entry)),
                                       group |-> "Validators"] >>]))
    ELSE Outcome(m.cache, m.agent_id, None)

\* lines 116-149: Commit of any other entry
process_commit(m, c, entry, crud_link) ==
    IF do_cache(entry, c)
    THEN Outcome(cache_insert(m.cache, address(entry), commit_signal(entry, crud_link)),
                 m.agent_id, None)
    ELSE Outcome(m.cache, m.agent_id, None)

\* mutant of process_publish: HashMap::get, the entry stays in the cache
process_publish_keeps(m, a) ==
    Outcome(m.cache, m.agent_id, IF a \in DOMAIN m.cache THEN Some(m.cache[a]) ELSE None)

\* lines 150-160: Publish emits (and forgets) the signal cached at Commit
process_publish(m, a) ==
    Outcome(cache_remove(m.cache, a), m.agent_id, cache_take(m.cache, a))

\* lines 161-196: the actions that emit a signal of their own
direct_signal(action) ==
    CASE action.type = "Hold" -> Some(new_terminal(EvHold(address(action.entry))))
      [] action.type = "UpdateEntry" ->
            Some(new_terminal(EvUpdateEntry(action.old, action.new)))
      [] action.type = "RemoveEntry" ->
            Some(new_terminal(EvRemoveEntry(action.old, action.new)))
      [] action.type = "AddLink" -> Some(new_terminal(EvAddLink(action.link)))
      [] action.type = "RemoveLink" -> Some(new_terminal(EvRemoveLink(action.entry)))
      [] action.type = "AddPendingValidation" ->
            Some(new_pending(EvAddPendingValidation(address(action.entry)), "Source",
                             << EvRemovePendingValidation(address(action.entry)) >>))
      [] action.type = "RemovePendingValidation" ->
            Some(new_terminal(EvRemovePendingValidation(action.addr)))
      [] action.type = "SignalZomeFunctionCall" ->
            Some(new_pending(EvSignalZomeFunctionCall(call_id(action.call)), "Source",
                             << EvReturnZomeFunctionResult(call_id(action.call)) >>))
      [] action.type = "ReturnZomeFunctionResult" ->
            Some(new_terminal(EvReturnZomeFunctionResult(call_id(action.response.call))))
      [] OTHER -> None

\* mutant of process_action: an action without an arm of its own empties the cache
process_action_other_evicts(m, c, action) ==
    CASE action.type = "Commit" /\ action.entry.kind = "AgentId" ->
            process_commit_agent(m, action.entry)
      [] action.type = "Commit" /\ action.entry.kind # "AgentId" ->
            process_commit(m, c, action.entry, action.crud_link)
      [] action.type = "Publish" -> process_publish(m, action.addr)
      [] OTHER -> Outcome(IF direct_signal(action) = None THEN << >> ELSE m.cache,
                          m.agent_id, direct_signal(action))

\* mutant of process_action: the arm for the agent entry is missing
process_action_without_agent_arm(m, c, action) ==
    CASE action.type = "Commit" ->
            process_commit(m, c, action.entry, action.crud_link)
      [] action.type = "Publish" -> process_publish(m, action.addr)
      [] OTHER -> Outcome(m.cache, m.agent_id, direct_signal(action))

\* lines 107-199
process_action(m, c, action) ==
    CASE action.type = "Commit" /\ action.entry.kind = "AgentId" ->
            process_commit_agent(m, action.entry)
      [] action.type = "Commit" /\ action.entry.kind # "AgentId" ->
            process_commit(m, c, action.entry, action.crud_link)
      [] action.type = "Publish" -> process_publish(m, action.addr)
      [] OTHER -> Outcome(m.cache, m.agent_id, direct_signal(action))

(***************************************************************************)
(* Capability requests and grants                                          *)
(*                                                                         *)
(* Function names and parameters are strings, modelled as sequences of     *)
(* characters so that format!("{}:{}", function, parameters) is the        *)
(* concatenation it is.  Addresses, tokens and keys are atomic strings.    *)
(***************************************************************************)
FnF == << "f" >>
FnG == << "g" >>
FnCrafted == << "f", ":", "{", "x" >>
FnNames == {FnF, FnG, FnCrafted}

ParamsEmpty == << "{", "}" >>
ParamsX == << "{", "x", ":", "1", "}" >>
ParamsTail == << "1", "}" >>
ParamStrings == {ParamsEmpty, ParamsX, ParamsTail}

AliceKey == "alice_key"
BobKey == "bob_key"
AgentKeys == {AliceKey, BobKey}
\* an address that is not the encoding of a public key (Address::from("someone"))
BadAddress == "someone"
SourceAddresses == AgentKeys \cup {BadAddress}

GrantToken == "grant_token"
BadToken == "bad token"

\* base64::encode is one-to-one: the encoded text stands for its input only
base64_encode(s) == [b64 |-> s]

\* lines 193-195
encode_call_data_for_signing(function, parameters) ==
    base64_encode(function \o << ":" >> \o parameters)

\* a signature made with the key of `signer` over `data` (make_call_sig, lines 198-210)
Sign(signer, data) == [signer |-> signer, data |-> data, wellformed |-> TRUE]

\* a signature string that is not the encoding of a signature
MalformedSignature == [signer |-> "nobody", data |-> base64_encode(<< >>), wellformed |-> FALSE]

\* Provenance::new
Provenance(source, signature) == [source |-> source, signature |-> signature]

\* CapabilityRequest::new
CapabilityRequest(token, source, signature) ==
    [cap_token |-> token, provenance |-> Provenance(source, signature)]

\* lines 223-234: the caller signs the function name and the parameters
make_cap_request_for_call(caller, token, function, parameters) ==
    CapabilityRequest(token, caller,
                      Sign(caller, encode_call_data_for_signing(function, parameters)))

\* the verification oracle, Verify for Provenance: HcResult<bool>.  It answers
\* whether the signature was made over `data` with the key the source address
\* encodes, and returns an error when the source or the signature cannot be decoded.
provenance_verify(provenance, data) ==
    IF provenance.source \notin AgentKeys \/ ~provenance.signature.wellformed
    THEN "err"
    ELSE IF provenance.signature.signer = provenance.source
            /\ provenance.signature.data = data
         THEN "true"
         ELSE "false"

\* lines 213-220: the oracle's answer unwrapped; an error is a panic
verify_call_sig(provenance, function, parameters) ==
    LET r == provenance_verify(provenance,
                               encode_call_data_for_signing(function, parameters))
    IN  IF r = "err" THEN "panic" ELSE r

\* CapTokenGrant: token, assignees (an Option) and the functions per zome
CapTokenGrant(token, assignees, functions) ==
    [token |-> token, assignees |-> assignees, functions |-> functions]

\* CapTokenGrant::cap_type: the type comes from the shape of the assignees
\* (none: Public, an empty list: Transferable, a list of addresses: Assigned)
cap_type(grant) ==
    IF ~IsSome(grant.assignees) THEN "Public"
    ELSE IF Unwrap(grant.assignees) = {} THEN "Transferable"
    ELSE "Assigned"

\* mutant of verify_assignee: the Assigned arm answers like the others
verify_assignee_any(grant, source) == "true"

\* lines 273-289: the check of the caller against the grant's type
verify_assignee(grant, source) ==
    CASE cap_type(grant) = "Public" -> "true"
      [] cap_type(grant) = "Transferable" -> "true"
      [] cap_type(grant) = "Assigned" ->
            IF ~IsSome(grant.assignees) THEN "panic"
            ELSE IF source \in Unwrap(grant.assignees) THEN "true" ELSE "false"

\* mutant of verify_grant: the token comparison is missing
verify_grant_without_token(grant, fn_call) ==
    IF fn_call.zome_name \notin DOMAIN grant.functions THEN "false"
    ELSE IF fn_call.fn_name \notin grant.functions[fn_call.zome_name] THEN "false"
    ELSE LET sig == verify_call_sig(fn_call.cap.provenance, fn_call.fn_name,
                                    fn_call.parameters)
         IN  IF sig # "true" THEN sig
             ELSE verify_assignee(grant, fn_call.cap.provenance.source)

\* lines 237-290: "true", "false", or "panic" when an unwrap fails
verify_grant(grant, fn_call) ==
    IF fn_call.zome_name \notin DOMAIN grant.functions THEN "false"
    ELSE IF fn_call.fn_name \notin grant.functions[fn_call.zome_name] THEN "false"
    ELSE IF grant.token # fn_call.cap.cap_token THEN "false"
    ELSE LET sig == verify_call_sig(fn_call.cap.provenance, fn_call.fn_name,
                                    fn_call.parameters)
         IN  IF sig # "true" THEN sig
             ELSE verify_assignee(grant, fn_call.cap.provenance.source)

(***************************************************************************)
(* Inputs of the verifier                                                  *)
(***************************************************************************)
TestZome == "test_zome"
OtherZome == "other_zome"

\* CapFunctions: zome name -> the functions granted in it
CapFunctionSets ==
    { [z \in {TestZome} |-> {FnF}],
      [z \in {TestZome} |-> {FnG}],
      [z \in {OtherZome} |-> {FnF}],
      [z \in {TestZome} |-> {FnF, FnCrafted}] }

\* the assignee lists of a Public, a Transferable and an Assigned grant
AssigneeShapes == {None, Some({}), Some({AliceKey})}

Grants ==
    { CapTokenGrant(GrantToken, as, fs) : as \in AssigneeShapes, fs \in CapFunctionSets }

Signatures ==
    { Sign(k, encode_call_data_for_signing(f, p)) :
        k \in AgentKeys, f \in {FnF, FnG}, p \in {ParamsEmpty, ParamsX} }
    \cup {MalformedSignature}

CallInputs ==
    { MkCall(1, TestZome, f, CapabilityRequest(t, src, sig), p) :
        f \in FnNames, t \in {GrantToken, BadToken}, src \in SourceAddresses,
        sig \in Signatures, p \in ParamStrings }

\* the call of the tests: caller signs exactly the call it makes
zome_call_valid(caller, token) ==
    MkCall(1, TestZome, FnF, make_cap_request_for_call(caller, token, FnF, ParamsEmpty),
           ParamsEmpty)

(***************************************************************************)
(* validate_call and what it reads from the Context                        *)
(***************************************************************************)
\* the instance's DNA: the functions of each zome
DnaZomes == [z \in {TestZome} |-> {FnF}]

\* context.agent_id.pub_sign_key, which is also the address of the AgentId entry
LocalAgentKey == AliceKey

\* an entry of the chain: its kind and its content, written as the grant the
\* content is when the entry is a CapTokenGrant
ChainEntry(kind, grant) == [kind |-> kind, grant |-> grant]

NoGrant == CapTokenGrant("", None, << >>)

\* Result<Option<Entry>, HolochainError> of a chain lookup
LookupErr == [ok |-> FALSE, entry |-> None]
LookupOk(entry) == [ok |-> TRUE, entry |-> entry]

\* the addresses a capability token may name
TokenAddresses == {GrantToken, BadToken} \cup AgentKeys

\* the local agent's chain as the lookup sees it: the agent's own AgentId entry is
\* at the agent's address, `at_token` is what the lookup of GrantToken yields
ChainWith(at_token) ==
    [a \in TokenAddresses |->
        IF a = GrantToken THEN at_token
        ELSE IF a = LocalAgentKey THEN LookupOk(Some(ChainEntry("AgentId", NoGrant)))
        ELSE LookupOk(None)]

\* a chain on which a Transferable grant for f of test_zome has been authored
AgentChain ==
    ChainWith(LookupOk(Some(ChainEntry("CapTokenGrant",
        CapTokenGrant(GrantToken, Some({}), [z \in {TestZome} |-> {FnF}])))))

\* get_entry_from_agent_chain(context, address)
get_entry_from_agent_chain(c, a) ==
    IF ~c.state THEN LookupErr
    ELSE IF a \in DOMAIN c.chain THEN c.chain[a] ELSE LookupOk(None)

\* mutant of get_grant: an entry of any kind is taken for a grant
get_grant_any_kind(c, a) ==
    LET r == get_entry_from_agent_chain(c, a)
    IN  IF ~r.ok THEN None
        ELSE IF ~IsSome(r.entry) THEN None
        ELSE Some(Unwrap(r.entry).grant)

\* lines 176-181: .ok()?? then the match on the entry's kind
get_grant(c, a) ==
    LET r == get_entry_from_agent_chain(c, a)
    IN  IF ~r.ok THEN None
        ELSE IF ~IsSome(r.entry) THEN None
        ELSE IF Unwrap(r.entry).kind = "CapTokenGrant" THEN Some(Unwrap(r.entry).grant)
        ELSE None

\* lines 185-191
check_capability(c, fn_call) ==
    LET maybe_grant == get_grant(c, fn_call.cap.cap_token)
    IN  IF IsSome(maybe_grant) THEN verify_grant(Unwrap(maybe_grant), fn_call) ELSE "false"

\* lines 172-174
is_token_the_agent(request) == LocalAgentKey = request.cap_token

\* lines 158-169: check_capability || (is_token_the_agent && verify_call_sig)
capability_ok(c, fn_call) ==
    LET granted == check_capability(c, fn_call)
    IN  IF granted # "false" THEN granted
        ELSE IF ~is_token_the_agent(fn_call.cap) THEN "false"
        ELSE verify_call_sig(fn_call.cap.provenance, fn_call.fn_name, fn_call.parameters)

\* mutant of validate_call: the capability is examined before the DNA is consulted
validate_call_capability_first(c, fn_call) ==
    IF ~c.state THEN "Context not initialized"
    ELSE IF capability_ok(c, fn_call) = "false" THEN "CapabilityCheckFailed"
    ELSE IF capability_ok(c, fn_call) = "panic" THEN "panic"
    ELSE IF ~c.dna THEN "DnaMissing"
    ELSE IF fn_call.zome_name \notin DOMAIN DnaZomes THEN "ZomeNotFound"
    ELSE IF fn_call.fn_name \notin DnaZomes[fn_call.zome_name] THEN "ZomeFunctionNotFound"
    ELSE "Ok"

\* lines 135-170: "Ok", the error, or "panic"
validate_call(c, fn_call) ==
    IF ~c.state THEN "Context not initialized"
    ELSE IF ~c.dna THEN "DnaMissing"
    ELSE IF fn_call.zome_name \notin DOMAIN DnaZomes THEN "ZomeNotFound"
    ELSE IF fn_call.fn_name \notin DnaZomes[fn_call.zome_name] THEN "ZomeFunctionNotFound"
    ELSE LET cap == capability_ok(c, fn_call)
         IN  CASE cap = "true" -> "Ok"
               [] cap = "false" -> "CapabilityCheckFailed"
               [] OTHER -> "panic"

(***************************************************************************)
(* Inputs of the consistency model                                         *)
(***************************************************************************)
SampleCall(id) ==
    MkCall(id, TestZome, FnF,
           make_cap_request_for_call(AliceKey, GrantToken, FnF, ParamsEmpty), ParamsEmpty)

CommitActions ==
    { [type |-> "Commit", entry |-> e, crud_link |-> cl] :
        e \in Entries \ {AgentEntry}, cl \in CrudLinks }
    \cup { [type |-> "Commit", entry |-> AgentEntry, crud_link |-> None] }

PublishActions == { [type |-> "Publish", addr |-> a] : a \in Addresses }

EffectActions ==
    { [type |-> "Hold", entry |-> AppPublic],
      [type |-> "ReturnZomeFunctionResult",
       response |-> ExecuteZomeFnResponse(SampleCall(1), [tag |-> "Ok", value |-> << "json", 1 >>])] }

CauseActions == { [type |-> "SignalZomeFunctionCall", call |-> SampleCall(1)] }

\* action kinds the model has no arm for
OtherActions == { [type |-> "InitializeChain"] }

\* Context: whether the state exists, whether it holds a DNA, and the agent's chain
MkContext(state, dna, chain) == [state |-> state, dna |-> dna, chain |-> chain]

ContextStates ==
    { MkContext(FALSE, FALSE, AgentChain),
      MkContext(TRUE, FALSE, AgentChain),
      MkContext(TRUE, TRUE, AgentChain) }

(***************************************************************************)
(* The consistency model as a state machine: the instance hands every      *)
(* action of the stream, in order, to process_action                       *)
(***************************************************************************)
CmStart ==
    /\ commit_cache = << >>
    /\ agent_id = None
    /\ ctx \in ContextStates   \* fixed while the actions are processed
    /\ trace = << >>

VgIdle ==
    /\ vg_grant = CapTokenGrant(GrantToken, None, [z \in {TestZome} |-> {FnF}])
    /\ vg_call = zome_call_valid(AliceKey, GrantToken)
    /\ vg_result = None
    /\ sig_result = None

BrIdle ==
    /\ calls = << >>
    /\ pc = << >>
    /\ outcome = << >>
    /\ worker = << >>
    /\ action_channel = << >>
    /\ channel_open = TRUE
    /\ stream = << >>
    /\ signals = << >>
    /\ zome_call_results = << >>

VcIdle ==
    /\ vc_call = zome_call_valid(AliceKey, GrantToken)
    /\ vc_result = None
    /\ cc_result = None

\* Keystore::new (lines 34-38): no identifier stored, nothing called yet
KsIdle ==
    /\ keys = << >>
    /\ ks_last = << >>

\* no NetworkState created yet
EqIdle ==
    /\ eq_states = << >>
    /\ eq_next_id = 1

NsIdle ==
    /\ ns_network = None
    /\ ns_dna_address = None
    /\ ns_agent_id = None
    /\ ns_results = << >>
    /\ ex_signal = new_terminal(EvHold(address(AppPublic)))
    /\ ex_exported = None
    /\ KsIdle
    /\ EqIdle

Init ==
    /\ CmStart
    /\ VgIdle
    /\ BrIdle
    /\ VcIdle
    /\ NsIdle

Dispatch(action) ==
    /\ Len(trace) < MaxSteps
    /\ LET r == process_action([cache |-> commit_cache, agent_id |-> agent_id], ctx, action)
       IN  /\ commit_cache' = r.cache
           /\ agent_id' = r.agent_id
           /\ trace' = Append(trace, [action |-> action, out |-> r.out,
                                      before |-> commit_cache, after |-> r.cache,
                                      agent_before |-> agent_id, agent_after |-> r.agent_id,
                                      ctx |-> ctx])
    /\ UNCHANGED <<ctx, vgVars, brVars, vcVars, nsVars, exVars, ksVars, eqVars>>

DispatchCommit == \E a \in CommitActions : Dispatch(a)

DispatchPublish == \E a \in PublishActions : Dispatch(a)

DispatchEffect == \E a \in EffectActions : Dispatch(a)

DispatchCause == \E a \in CauseActions : Dispatch(a)

DispatchOther == \E a \in OtherActions : Dispatch(a)

Next ==
    \/ DispatchCommit
    \/ DispatchPublish
    \/ DispatchEffect
    \/ DispatchCause
    \/ DispatchOther

Spec == Init /\ [][Next]_vars

(***************************************************************************)
(* The same machine over the full range of entries, Commit and Publish     *)
(***************************************************************************)
\* entries of further kinds: a chain header (published, no effect of its own),
\* the Dna entry and a capability grant (never published), a second agent
HeaderEntry == MkEntry("ChainHeader", "header")
DnaEntry == MkEntry("Dna", "dna")
GrantEntry == MkEntry("CapTokenGrant", "grant")
AgentEntryBob == MkEntry("AgentId", "bob")

AllEntries == Entries \cup {HeaderEntry, DnaEntry, GrantEntry, AgentEntryBob}

CommitActionsAll ==
    { [type |-> "Commit", entry |-> e, crud_link |-> cl] :
        e \in AllEntries \ {AgentEntry, AgentEntryBob}, cl \in CrudLinks }
    \cup { [type |-> "Commit", entry |-> e, crud_link |-> None] :
             e \in {AgentEntry, AgentEntryBob} }

PublishActionsAll == { [type |-> "Publish", addr |-> address(e)] : e \in AllEntries }

DispatchUpTo(limit, action) ==
    /\ Len(trace) < limit
    /\ LET r == process_action([cache |-> commit_cache, agent_id |-> agent_id], ctx, action)
       IN  /\ commit_cache' = r.cache
           /\ agent_id' = r.agent_id
           /\ trace' = Append(trace, [action |-> action, out |-> r.out,
                                      before |-> commit_cache, after |-> r.cache,
                                      agent_before |-> agent_id, agent_after |-> r.agent_id,
                                      ctx |-> ctx])
    /\ UNCHANGED <<ctx, vgVars, brVars, vcVars, nsVars, exVars, ksVars, eqVars>>

CommitAny == \E a \in CommitActionsAll : DispatchUpTo(MaxCommitSteps, a)

PublishAny == \E a \in PublishActionsAll : DispatchUpTo(MaxCommitSteps, a)

NextCommit ==
    \/ CommitAny
    \/ PublishAny

SpecCommit == Init /\ [][NextCommit]_vars

(***************************************************************************)
(* The same machine over every kind of action: causes, effects, the rest   *)
(***************************************************************************)
\* the result a zome call returned
ResponseOf(id) ==
    ExecuteZomeFnResponse(SampleCall(id), [tag |-> "Ok", value |-> << "json", id >>])

\* the calls the actions speak of
SampleIds == {1, 2}

\* Commit, Publish, AddPendingValidation, SignalZomeFunctionCall
CauseActionsAll ==
    { [type |-> "Commit", entry |-> AppPublic, crud_link |-> None],
      [type |-> "Publish", addr |-> address(AppPublic)] }
    \cup { [type |-> "AddPendingValidation", entry |-> e] : e \in {AppPublic, DeletionEntry} }
    \cup { [type |-> "SignalZomeFunctionCall", call |-> SampleCall(id)] : id \in SampleIds }

\* Hold, UpdateEntry, RemoveEntry, AddLink, RemoveLink, RemovePendingValidation,
\* ReturnZomeFunctionResult
EffectActionsAll ==
    { [type |-> "Hold", entry |-> e] : e \in {AppPublic, DeletionEntry} }
    \cup { [type |-> "UpdateEntry", old |-> CrudTarget, new |-> address(AppPublic)],
           [type |-> "RemoveEntry", old |-> CrudTarget, new |-> address(DeletionEntry)],
           [type |-> "AddLink", link |-> link_data(LinkAddEntry)],
           [type |-> "RemoveLink", entry |-> LinkRemoveEntry] }
    \cup { [type |-> "RemovePendingValidation", addr |-> address(e)] :
             e \in {AppPublic, DeletionEntry} }
    \cup { [type |-> "ReturnZomeFunctionResult", response |-> ResponseOf(id)] :
             id \in SampleIds }

\* kinds of action the model has no arm for
UnlistedActions == { [type |-> "InitializeChain"], [type |-> "InitNetwork"] }

DispatchCauseAny == \E a \in CauseActionsAll : DispatchUpTo(MaxSteps, a)

DispatchEffectAny == \E a \in EffectActionsAll : DispatchUpTo(MaxSteps, a)

DispatchUnlisted == \E a \in UnlistedActions : DispatchUpTo(MaxSteps, a)

NextEffects ==
    \/ DispatchCauseAny
    \/ DispatchEffectAny
    \/ DispatchUnlisted

SpecEffects == Init /\ [][NextEffects]_vars

(***************************************************************************)
(* The verifier applied to a grant and a call                              *)
(***************************************************************************)
CmIdle ==
    /\ commit_cache = << >>
    /\ agent_id = None
    /\ ctx = MkContext(TRUE, TRUE, AgentChain)
    /\ trace = << >>

VgStart ==
    /\ vg_grant \in Grants
    /\ vg_call \in CallInputs
    /\ vg_result = None
    /\ sig_result = None

InitVerify ==
    /\ CmIdle
    /\ VgStart
    /\ BrIdle
    /\ VcIdle
    /\ NsIdle

ApplyVerifyGrant ==
    /\ vg_result = None
    /\ vg_result' = Some(verify_grant(vg_grant, vg_call))
    /\ UNCHANGED <<vg_grant, vg_call, sig_result, cmVars, brVars, vcVars, nsVars, exVars, ksVars, eqVars>>

ApplyVerifyCallSig ==
    /\ sig_result = None
    /\ sig_result' = Some(verify_call_sig(vg_call.cap.provenance, vg_call.fn_name,
                                          vg_call.parameters))
    /\ UNCHANGED <<vg_grant, vg_call, vg_result, cmVars, brVars, vcVars, nsVars, exVars, ksVars, eqVars>>

NextVerify ==
    \/ ApplyVerifyGrant
    \/ ApplyVerifyCallSig

SpecVerify == InitVerify /\ [][NextVerify]_vars

(***************************************************************************)
(* validate_call and check_capability applied to a context and a call      *)
(***************************************************************************)
\* the grants that may have been authored at the token's address
ChainGrants ==
    { CapTokenGrant(GrantToken, None, [z \in {TestZome} |-> {FnF}]),
      CapTokenGrant(GrantToken, Some({AliceKey}), [z \in {TestZome} |-> {FnF}]),
      CapTokenGrant(GrantToken, Some({}), [z \in {TestZome} |-> {FnG}]) }

\* what the lookup of the token's address may yield: an error, nothing, an app
\* entry (whose content reads like a grant), a grant
ChainsAtToken ==
    { LookupErr, LookupOk(None),
      LookupOk(Some(ChainEntry("App",
          CapTokenGrant(GrantToken, None, [z \in {TestZome} |-> {FnF}])))) }
    \cup { LookupOk(Some(ChainEntry("CapTokenGrant", g))) : g \in ChainGrants }

ValidateContexts ==
    { MkContext(st.state, st.dna, ChainWith(at)) :
        st \in { [state |-> FALSE, dna |-> FALSE], [state |-> TRUE, dna |-> FALSE],
                 [state |-> TRUE, dna |-> TRUE] },
        at \in ChainsAtToken }

ValidateSignatures ==
    { Sign(AliceKey, encode_call_data_for_signing(FnF, ParamsEmpty)),
      Sign(BobKey, encode_call_data_for_signing(FnF, ParamsEmpty)),
      Sign(AliceKey, encode_call_data_for_signing(FnG, ParamsEmpty)),
      MalformedSignature }

ValidateCalls ==
    { MkCall(1, z, f, CapabilityRequest(t, src, sig), ParamsEmpty) :
        z \in {TestZome, OtherZome}, f \in {FnF, FnG},
        t \in {GrantToken, LocalAgentKey, BadToken},
        src \in SourceAddresses, sig \in ValidateSignatures }

VcStart ==
    /\ vc_call \in ValidateCalls
    /\ vc_result = None
    /\ cc_result = None

InitValidate ==
    /\ commit_cache = << >>
    /\ agent_id = None
    /\ ctx \in ValidateContexts
    /\ trace = << >>
    /\ VgIdle
    /\ BrIdle
    /\ VcStart
    /\ NsIdle

ApplyValidateCall ==
    /\ vc_result = None
    /\ vc_result' = Some(validate_call(ctx, vc_call))
    /\ UNCHANGED <<vc_call, cc_result, cmVars, vgVars, brVars, nsVars, exVars, ksVars, eqVars>>

ApplyCheckCapability ==
    /\ cc_result = None
    /\ cc_result' = Some(check_capability(ctx, vc_call))
    /\ UNCHANGED <<vc_call, vc_result, cmVars, vgVars, brVars, nsVars, exVars, ksVars, eqVars>>

NextValidate ==
    \/ ApplyValidateCall
    \/ ApplyCheckCapability

SpecValidate == InitValidate /\ [][NextValidate]_vars

(***************************************************************************)
(* call_zome_function: callers, their ribosome threads, the action channel *)
(* and the loop that reduces the actions                                   *)
(***************************************************************************)
CallIds == 1..NCalls

\* the calls an invocation may be given: the agent calling itself, a caller
\* with a token nobody granted, a function the DNA lacks, a broken signature
BridgeCalls(id) ==
    { MkCall(id, TestZome, FnF,
             make_cap_request_for_call(AliceKey, AliceKey, FnF, ParamsEmpty), ParamsEmpty),
      MkCall(id, TestZome, FnF,
             make_cap_request_for_call(BobKey, BadToken, FnF, ParamsEmpty), ParamsEmpty),
      MkCall(id, TestZome, FnG,
             make_cap_request_for_call(AliceKey, AliceKey, FnG, ParamsEmpty), ParamsEmpty),
      MkCall(id, TestZome, FnF,
             CapabilityRequest(AliceKey, AliceKey, MalformedSignature), ParamsEmpty) }

\* Result<JsonString, HolochainError>, and the fault that unwinds instead of returning
Ok(value) == [tag |-> "Ok", value |-> value]
Err(error) == [tag |-> "Err", value |-> error]
Panic(message) == [tag |-> "Panic", value |-> message]

\* ribosome::run_dna: the function's own result, Ok or Err, for this call
RunResults(call) == { Ok(<< "json", call.id >>), Err(<< "ribosome error", call.id >>) }

\* mutant of CallerSteps: the call is announced before it is validated
CallerStepsAnnounceFirst == << "announce", "validate", "spawn", "await" >>

\* mutant of CallerSteps: the thread is spawned before the call is announced
CallerStepsSpawnFirst == << "validate", "spawn", "announce", "await" >>

\* mutant of CallerSteps: the call is validated only after its thread was spawned
CallerStepsValidateLast == << "announce", "spawn", "validate", "await" >>

\* lines 68-132: the order of call_zome_function's steps
CallerSteps == << "validate", "announce", "spawn", "await" >>

At(i, step) == pc[i] \in 1..Len(CallerSteps) /\ CallerSteps[pc[i]] = step

Returns(i, value) ==
    /\ pc' = [pc EXCEPT ![i] = 0]
    /\ outcome' = [outcome EXCEPT ![i] = Some(value)]

\* SyncSender::send on the action channel
Send(action) ==
    /\ action_channel' = Append(action_channel, action)
    /\ stream' = Append(stream, action)

BrStart ==
    /\ calls \in { cs \in [CallIds -> UNION { BridgeCalls(i) : i \in CallIds }] :
                     \A i \in CallIds : cs[i].id = i }
    /\ pc = [i \in CallIds |-> 1]
    /\ outcome = [i \in CallIds |-> None]
    /\ worker = [i \in CallIds |-> "none"]
    /\ action_channel = << >>
    /\ channel_open = TRUE
    /\ stream = << >>
    /\ signals = << >>
    /\ zome_call_results = << >>

InitCall ==
    /\ CmStart
    /\ VgIdle
    /\ BrStart
    /\ VcIdle
    /\ NsIdle

\* line 78: validate_call(...)?
Validate(i) ==
    /\ At(i, "validate")
    /\ LET v == validate_call(ctx, calls[i])
       IN  IF v = "Ok"
           THEN pc' = [pc EXCEPT ![i] = @ + 1] /\ UNCHANGED outcome
           ELSE IF v = "panic" THEN Returns(i, Panic(<< "called unwrap on an Err" >>))
           ELSE Returns(i, Err(<< v >>))
    /\ UNCHANGED <<calls, worker, action_channel, channel_open, stream, signals,
                   zome_call_results, cmVars, vgVars, vcVars, nsVars, exVars, ksVars, eqVars>>

\* lines 90-95: send SignalZomeFunctionCall, expect the channel to be open
Announce(i) ==
    /\ At(i, "announce")
    /\ IF channel_open
       THEN /\ Send([type |-> "SignalZomeFunctionCall", call |-> calls[i]])
            /\ pc' = [pc EXCEPT ![i] = @ + 1]
            /\ UNCHANGED outcome
       ELSE /\ Returns(i, Panic(<< "action channel to be open" >>))
            /\ UNCHANGED <<action_channel, stream>>
    /\ UNCHANGED <<calls, worker, channel_open, signals, zome_call_results, cmVars, vgVars, vcVars, nsVars, exVars, ksVars, eqVars>>

\* lines 97-120: spawn the thread that runs the ribosome
Spawn(i) ==
    /\ At(i, "spawn")
    /\ worker' = [worker EXCEPT ![i] = "running"]
    /\ pc' = [pc EXCEPT ![i] = @ + 1]
    /\ UNCHANGED <<calls, outcome, action_channel, channel_open, stream, signals,
                   zome_call_results, cmVars, vgVars, vcVars, nsVars, exVars, ksVars, eqVars>>

\* mutant of WorkerReturn: the thread ends without sending the result
WorkerReturnLost(i) ==
    /\ worker[i] = "running"
    /\ worker' = [worker EXCEPT ![i] = "finished"]
    /\ UNCHANGED <<calls, pc, outcome, action_channel, stream, channel_open, signals,
                   zome_call_results, cmVars, vgVars, vcVars, nsVars, exVars, ksVars, eqVars>>

\* mutant of WorkerReturn: the thread also writes the result into the state itself
WorkerReturnStoresResult(i) ==
    /\ worker[i] = "running"
    /\ \E result \in RunResults(calls[i]) :
          /\ IF channel_open
             THEN Send([type |-> "ReturnZomeFunctionResult",
                        response |-> ExecuteZomeFnResponse(calls[i], result)])
             ELSE UNCHANGED <<action_channel, stream>>
          /\ zome_call_results' =
                [c \in (DOMAIN zome_call_results) \cup {calls[i]} |->
                    IF c = calls[i] THEN result ELSE zome_call_results[c]]
    /\ worker' = [worker EXCEPT ![i] = "finished"]
    /\ UNCHANGED <<calls, pc, outcome, channel_open, signals,
                   cmVars, vgVars, vcVars, nsVars, exVars, ksVars, eqVars>>

\* lines 102-119: the thread runs the function and sends its result (lax_send_sync:
\* a closed channel is no error)
WorkerReturn(i) ==
    /\ worker[i] = "running"
    /\ \E result \in RunResults(calls[i]) :
          IF channel_open
          THEN Send([type |-> "ReturnZomeFunctionResult",
                     response |-> ExecuteZomeFnResponse(calls[i], result)])
          ELSE UNCHANGED <<action_channel, stream>>
    /\ worker' = [worker EXCEPT ![i] = "finished"]
    /\ UNCHANGED <<calls, pc, outcome, channel_open, signals, zome_call_results,
                   cmVars, vgVars, vcVars, nsVars, exVars, ksVars, eqVars>>

\* mutant of CallResultFuture_poll: a stored result is returned before the channel
\* is looked at
CallResultFuture_poll_result_first(i) ==
    IF ctx.state /\ calls[i] \in DOMAIN zome_call_results
    THEN [ready |-> TRUE, value |-> zome_call_results[calls[i]]]
    ELSE IF ~channel_open THEN [ready |-> TRUE, value |-> Err(<< "action channel closed" >>)]
    ELSE IF ~ctx.state THEN [ready |-> TRUE, value |-> Err(<< "State not initialized" >>)]
    ELSE [ready |-> FALSE, value |-> Err(<< "pending" >>)]

\* mutant of CallResultFuture_poll: any stored result resolves the future
CallResultFuture_poll_any_call(i) ==
    IF ~channel_open THEN [ready |-> TRUE, value |-> Err(<< "action channel closed" >>)]
    ELSE IF ~ctx.state THEN [ready |-> TRUE, value |-> Err(<< "State not initialized" >>)]
    ELSE IF DOMAIN zome_call_results # {}
         THEN [ready |-> TRUE,
               value |-> zome_call_results[CHOOSE c \in DOMAIN zome_call_results : TRUE]]
         ELSE [ready |-> FALSE, value |-> Err(<< "pending" >>)]

\* lines 302-322: Pending, or Ready with the value
CallResultFuture_poll(i) ==
    IF ~channel_open THEN [ready |-> TRUE, value |-> Err(<< "action channel closed" >>)]
    ELSE IF ~ctx.state THEN [ready |-> TRUE, value |-> Err(<< "State not initialized" >>)]
    ELSE IF calls[i] \in DOMAIN zome_call_results
         THEN [ready |-> TRUE, value |-> zome_call_results[calls[i]]]
         ELSE [ready |-> FALSE, value |-> Err(<< "pending" >>)]

\* line 128: await the CallResultFuture
Poll(i) ==
    /\ At(i, "await")
    /\ CallResultFuture_poll(i).ready
    /\ Returns(i, CallResultFuture_poll(i).value)
    /\ UNCHANGED <<calls, worker, action_channel, channel_open, stream, signals,
                   zome_call_results, cmVars, vgVars, vcVars, nsVars, exVars, ksVars, eqVars>>

\* lines 128-131: the caller drops the future it was awaiting; nothing else is told
Abandon(i) ==
    /\ At(i, "await")
    /\ pc' = [pc EXCEPT ![i] = 0]
    /\ UNCHANGED <<calls, outcome, worker, action_channel, channel_open, stream, signals,
                   zome_call_results, cmVars, vgVars, vcVars, nsVars, exVars, ksVars, eqVars>>

\* the instance's loop: take the next action, reduce it into the state, hand it to
\* the consistency model and emit the signal it returns
Reduce ==
    /\ channel_open
    /\ action_channel # << >>
    /\ LET action == Head(action_channel)
           r == process_action([cache |-> commit_cache, agent_id |-> agent_id], ctx, action)
       IN  /\ action_channel' = Tail(action_channel)
           /\ zome_call_results' =
                 IF action.type = "ReturnZomeFunctionResult"
                 THEN [c \in (DOMAIN zome_call_results) \cup {action.response.call} |->
                          IF c = action.response.call THEN action.response.result
                          ELSE zome_call_results[c]]
                 ELSE zome_call_results
           /\ commit_cache' = r.cache
           /\ agent_id' = r.agent_id
           /\ signals' = signals \o r.out
    /\ UNCHANGED <<calls, pc, outcome, worker, channel_open, stream, ctx, trace, vgVars,
                   vcVars, nsVars, exVars, ksVars, eqVars>>

\* the receiving end of the action channel goes away
CloseChannel ==
    /\ channel_open
    /\ channel_open' = FALSE
    /\ UNCHANGED <<calls, pc, outcome, worker, action_channel, stream, signals,
                   zome_call_results, cmVars, vgVars, vcVars, nsVars, exVars, ksVars, eqVars>>

NextCall ==
    \/ \E i \in CallIds : Validate(i)
    \/ \E i \in CallIds : Announce(i)
    \/ \E i \in CallIds : Spawn(i)
    \/ \E i \in CallIds : WorkerReturn(i)
    \/ \E i \in CallIds : Poll(i)
    \/ Reduce
    \/ CloseChannel

SpecCall == InitCall /\ [][NextCall]_vars

\* the same machine while the channel stays open, with its scheduling: a caller that can take its next step takes
\* it, a started function execution ends, the loop reduces what is in the channel,
\* and the future is polled again after every change of the state
(***************************************************************************)
(* CallResultFuture polled on its own: the future is a value anyone may    *)
(* build and poll, whatever the context holds at that moment               *)
(***************************************************************************)
\* the step of call_zome_function at which the future is awaited
AwaitStep == CHOOSE k \in 1..Len(CallerSteps) : CallerSteps[k] = "await"

\* the agent calling f of test_zome on itself
SelfCallOf(id) ==
    MkCall(id, TestZome, FnF,
           make_cap_request_for_call(AliceKey, AliceKey, FnF, ParamsEmpty), ParamsEmpty)

\* the results the nucleus state may hold: none without a state, else for any of
\* the calls a result of its function
StoredResults(c) ==
    IF ~c.state THEN { << >> }
    ELSE UNION { [ { SelfCallOf(i) : i \in done } ->
                     UNION { RunResults(SelfCallOf(i)) : i \in CallIds } ] :
                 done \in SUBSET CallIds }

PollStart ==
    /\ calls = [i \in CallIds |-> SelfCallOf(i)]
    /\ pc = [i \in CallIds |-> AwaitStep]
    /\ outcome = [i \in CallIds |-> None]
    /\ worker = [i \in CallIds |-> "finished"]
    /\ action_channel = << >>
    /\ channel_open \in BOOLEAN
    /\ stream = << >>
    /\ signals = << >>
    /\ zome_call_results \in
          { r \in StoredResults(ctx) : \A c \in DOMAIN r : r[c] \in RunResults(c) }

InitPoll ==
    /\ CmStart
    /\ VgIdle
    /\ PollStart
    /\ VcIdle
    /\ NsIdle

NextPoll ==
    \/ \E i \in CallIds : Poll(i)
    \/ CloseChannel

SpecPoll == InitPoll /\ [][NextPoll]_vars

\* the receiver of the action channel is never dropped
NextCallOpen ==
    \/ \E i \in CallIds : Validate(i)
    \/ \E i \in CallIds : Announce(i)
    \/ \E i \in CallIds : Spawn(i)
    \/ \E i \in CallIds : WorkerReturn(i)
    \/ \E i \in CallIds : Poll(i)
    \/ Reduce

SpecCallLive ==
    /\ InitCall
    /\ [][NextCallOpen]_vars
    /\ \A i \in CallIds :
          /\ WF_vars(Validate(i))
          /\ WF_vars(Announce(i))
          /\ WF_vars(Spawn(i))
          /\ WF_vars(WorkerReturn(i))
          /\ WF_vars(Poll(i))
    /\ WF_vars(Reduce)

\* the same machine with callers that may give up waiting; giving up is never
\* forced, and all that is scheduled is that a caller past validation goes on to
\* announce and spawn and that a started function execution ends
NextCallAbandon ==
    \/ \E i \in CallIds : Validate(i)
    \/ \E i \in CallIds : Announce(i)
    \/ \E i \in CallIds : Spawn(i)
    \/ \E i \in CallIds : WorkerReturn(i)
    \/ \E i \in CallIds : Poll(i)
    \/ \E i \in CallIds : Abandon(i)
    \/ Reduce

SpecCallAbandon ==
    /\ InitCall
    /\ [][NextCallAbandon]_vars
    /\ \A i \in CallIds :
          /\ WF_vars(Announce(i))
          /\ WF_vars(Spawn(i))
          /\ WF_vars(WorkerReturn(i))

(***************************************************************************)
(* NetworkState (core/src/network/state.rs)                                *)
(***************************************************************************)
\* the three fields initialized() reads
MkNetworkState(network, dna_address, agent) ==
    [network |-> network, dna_address |-> dna_address, agent_id |-> agent]

\* lines 60-73: NetworkState::new
NetworkState_new == MkNetworkState(None, None, None)

\* mutant of initialized: one field set is enough
initialized_any(ns) ==
    IF IsSome(ns.network) \/ IsSome(ns.dna_address) \/ IsSome(ns.agent_id)
    THEN Ok(<< >>)
    ELSE Err(<< "Network not initialized" >>)

\* lines 79-86: NetworkState::initialized
initialized(ns) ==
    IF IsSome(ns.network) /\ IsSome(ns.dna_address) /\ IsSome(ns.agent_id)
    THEN Ok(<< >>)
    ELSE Err(<< "Network not initialized" >>)

\* values the public fields may be given
NetworkHandles == {None, Some("p2p_network")}
DnaAddresses == {None, Some("dna_a"), Some("dna_b")}
AgentIds == {None, Some("alice"), Some("bob")}

NetworkStateNow == MkNetworkState(ns_network, ns_dna_address, ns_agent_id)

NsStart ==
    /\ ns_network = NetworkState_new.network
    /\ ns_dna_address = NetworkState_new.dna_address
    /\ ns_agent_id = NetworkState_new.agent_id
    /\ ns_results = << >>
    /\ ex_signal = new_terminal(EvHold(address(AppPublic)))
    /\ ex_exported = None
    /\ KsIdle
    /\ EqIdle

InitNetwork ==
    /\ CmIdle
    /\ VgIdle
    /\ BrIdle
    /\ VcIdle
    /\ NsStart

\* the network field is written (the handle is put in place or taken away)
SetNetwork ==
    /\ \E v \in NetworkHandles : v # ns_network /\ ns_network' = v
    /\ UNCHANGED <<ns_dna_address, ns_agent_id, ns_results, cmVars, vgVars, brVars, vcVars, exVars, ksVars, eqVars>>

SetDnaAddress ==
    /\ \E v \in DnaAddresses : v # ns_dna_address /\ ns_dna_address' = v
    /\ UNCHANGED <<ns_network, ns_agent_id, ns_results, cmVars, vgVars, brVars, vcVars, exVars, ksVars, eqVars>>

SetAgentId ==
    /\ \E v \in AgentIds : v # ns_agent_id /\ ns_agent_id' = v
    /\ UNCHANGED <<ns_network, ns_dna_address, ns_results, cmVars, vgVars, brVars, vcVars, exVars, ksVars, eqVars>>

\* initialized(&self): the state it saw, what it returned, the state it left
CallInitialized ==
    /\ Len(ns_results) < MaxChecks
    /\ ns_results' = Append(ns_results,
                            [before |-> NetworkStateNow,
                             result |-> initialized(NetworkStateNow),
                             after |-> NetworkStateNow])
    /\ UNCHANGED <<ns_network, ns_dna_address, ns_agent_id, cmVars, vgVars, brVars, vcVars, exVars, ksVars, eqVars>>

NextNetwork ==
    \/ SetNetwork
    \/ SetDnaAddress
    \/ SetAgentId
    \/ CallInitialized

SpecNetwork == InitNetwork /\ [][NextNetwork]_vars

(***************************************************************************)
(* The keystore (dpki): identifiers and the secrets stored under them      *)
(***************************************************************************)
\* the identifiers callers use
KeyIds == {"my_root_seed", "my_second_seed", "my_keypair"}

\* what generate_random_seed_buf may return
SeedBufs == {1, 2}

\* enum Secret; the material tells where the secret comes from
RootSeed(buf) == [kind |-> "RootSeed", material |-> << buf >>]
IndexedSeed(src, index) == [kind |-> "IndexedSeed", material |-> Append(src.material, index)]
Key(src, index) == [kind |-> "Key", material |-> Append(src.material, index)]

\* HashMap::insert
keys_insert(ks, id, secret) ==
    [k \in (DOMAIN ks) \cup {id} |-> IF k = id THEN secret ELSE ks[k]]

\* the outcome of an operation and the keystore it leaves
KsOutcome(result, ks) == [result |-> result, keys |-> ks]

IdentifierExists == Err(<< "identifier already exists" >>)
UnknownSource == Err(<< "unknown source identifier" >>)

\* lines 61-69
check_dst_identifier(ks, dst_id) ==
    IF dst_id \in DOMAIN ks THEN IdentifierExists ELSE Ok(<< dst_id >>)

\* lines 71-79
check_src_identifier(ks, src_id) ==
    IF src_id \notin DOMAIN ks THEN UnknownSource ELSE Ok(<< ks[src_id] >>)

\* mutant of check_identifiers: the source is checked before the destination
check_identifiers_source_first(ks, src_id, dst_id) ==
    IF check_src_identifier(ks, src_id).tag = "Err" THEN check_src_identifier(ks, src_id)
    ELSE IF check_dst_identifier(ks, dst_id).tag = "Err" THEN check_dst_identifier(ks, dst_id)
    ELSE Ok(<< ks[src_id], dst_id >>)

\* lines 81-89: the destination is checked first
check_identifiers(ks, src_id, dst_id) ==
    IF check_dst_identifier(ks, dst_id).tag = "Err" THEN check_dst_identifier(ks, dst_id)
    ELSE IF check_src_identifier(ks, src_id).tag = "Err" THEN check_src_identifier(ks, src_id)
    ELSE Ok(<< ks[src_id], dst_id >>)

\* lines 48-59
add_random_seed(ks, id, buf) ==
    IF id \in DOMAIN ks THEN KsOutcome(IdentifierExists, ks)
    ELSE KsOutcome(Ok(<< >>), keys_insert(ks, id, RootSeed(buf)))

\* mutant of add_seed_from_seed: any seed is accepted as the source
add_seed_from_seed_any_seed(ks, src_id, dst_id, index, derived) ==
    LET checked == check_identifiers(ks, src_id, dst_id)
    IN  IF checked.tag = "Err" THEN KsOutcome(checked, ks)
        ELSE IF checked.value[1].kind = "Key"
             THEN KsOutcome(Err(<< "source secret is not a root seed" >>), ks)
        ELSE IF ~derived THEN KsOutcome(Err(<< "derivation failed" >>), ks)
        ELSE KsOutcome(Ok(<< >>), keys_insert(ks, dst_id, IndexedSeed(checked.value[1], index)))

\* lines 93-118; derived: whether generate_indexed_seed returned Ok
add_seed_from_seed(ks, src_id, dst_id, index, derived) ==
    LET checked == check_identifiers(ks, src_id, dst_id)
    IN  IF checked.tag = "Err" THEN KsOutcome(checked, ks)
        ELSE IF checked.value[1].kind # "RootSeed"
             THEN KsOutcome(Err(<< "source secret is not a root seed" >>), ks)
        ELSE IF ~derived THEN KsOutcome(Err(<< "derivation failed" >>), ks)
        ELSE KsOutcome(Ok(<< >>), keys_insert(ks, dst_id, IndexedSeed(checked.value[1], index)))

\* lines 123-154; derived: whether kdf::derive and KeyBundle::new_from_seed_buf
\* returned Ok; the value returned is the public key of the new key
add_key_from_seed(ks, src_id, dst_id, index, derived) ==
    LET checked == check_identifiers(ks, src_id, dst_id)
    IN  IF checked.tag = "Err" THEN KsOutcome(checked, ks)
        ELSE IF checked.value[1].kind \notin {"RootSeed", "IndexedSeed"}
             THEN KsOutcome(Err(<< "source secret is not a seed" >>), ks)
        ELSE IF ~derived THEN KsOutcome(Err(<< "derivation failed" >>), ks)
        ELSE KsOutcome(Ok(<< "public key", Key(checked.value[1], index).material >>),
                       keys_insert(ks, dst_id, Key(checked.value[1], index)))

\* lines 159-178; signed: whether key_bundle.sign returned Ok
sign(ks, src_id, data, signed) ==
    LET checked == check_src_identifier(ks, src_id)
    IN  IF checked.tag = "Err" THEN KsOutcome(checked, ks)
        ELSE IF checked.value[1].kind # "Key"
             THEN KsOutcome(Err(<< "source secret is not a key" >>), ks)
        ELSE IF ~signed THEN KsOutcome(Err(<< "signing failed" >>), ks)
        ELSE KsOutcome(Ok(<< "signature", checked.value[1].material, data >>), ks)

\* the indexes and the data callers pass
KeyIndexes == {1}
SignedData == {"the data to sign"}

\* one call of a keystore operation
KsCall(op, src, dst, out) ==
    /\ keys' = out.keys
    /\ ks_last' = Some([op |-> op, src |-> src, dst |-> dst, result |-> out.result])
    /\ UNCHANGED <<cmVars, vgVars, brVars, vcVars, nsVars, exVars, eqVars>>

AddRandomSeed ==
    \E id \in KeyIds : \E buf \in SeedBufs :
        KsCall("add_random_seed", "", id, add_random_seed(keys, id, buf))

AddSeedFromSeed ==
    \E src \in KeyIds : \E dst \in KeyIds : \E index \in KeyIndexes : \E derived \in BOOLEAN :
        KsCall("add_seed_from_seed", src, dst,
               add_seed_from_seed(keys, src, dst, index, derived))

AddKeyFromSeed ==
    \E src \in KeyIds : \E dst \in KeyIds : \E index \in KeyIndexes : \E derived \in BOOLEAN :
        KsCall("add_key_from_seed", src, dst,
               add_key_from_seed(keys, src, dst, index, derived))

SignWithKey ==
    \E src \in KeyIds : \E data \in SignedData : \E signed \in BOOLEAN :
        KsCall("sign", src, "", sign(keys, src, data, signed))

InitKeystore ==
    /\ CmIdle
    /\ VgIdle
    /\ BrIdle
    /\ VcIdle
    /\ NsIdle

NextKeystore ==
    \/ AddRandomSeed
    \/ AddSeedFromSeed
    \/ AddKeyFromSeed
    \/ SignWithKey

SpecKeystore == InitKeystore /\ [][NextKeystore]_vars

(***************************************************************************)
(* NetworkState values compared: created, cloned and changed               *)
(***************************************************************************)
\* a NetworkState value: its public fields, its maps, its id; origin tells which
\* call of NetworkState::new the value stems from
IdentifiedState(fields, maps, id, origin) ==
    [fields |-> fields, maps |-> maps, id |-> id, origin |-> origin]

\* mutant of eq: the values are compared field by field
eq_by_content(self, other) == self.fields = other.fields /\ self.maps = other.maps

\* lines 53-57: impl PartialEq for NetworkState
eq(self, other) == self.id = other.id

\* what the changes write: a dna address, an agent id, an entry of the actions map
EqDnaAddresses == {Some("dna_a")}
EqAgentIds == {Some("alice")}
EqMapEntries == {"action"}

\* the calls of NetworkState::new so far
Origins == { eq_states[k].origin : k \in 1..Len(eq_states) }

\* lines 60-73: NetworkState::new, with the id snowflake hands out next
EqNew ==
    /\ Len(eq_states) < MaxStates
    /\ eq_states' = Append(eq_states,
                           IdentifiedState(NetworkState_new, {}, eq_next_id,
                                           Cardinality(Origins) + 1))
    /\ eq_next_id' = eq_next_id + 1
    /\ UNCHANGED <<cmVars, vgVars, brVars, vcVars, nsVars, exVars, ksVars>>

\* line 27: #[derive(Clone)], every field is copied, the id too
EqClone ==
    /\ Len(eq_states) < MaxStates
    /\ \E k \in 1..Len(eq_states) : eq_states' = Append(eq_states, eq_states[k])
    /\ UNCHANGED <<eq_next_id, cmVars, vgVars, brVars, vcVars, nsVars, exVars, ksVars>>

\* a write of the pub field dna_address (line 34)
EqSetDnaAddress ==
    /\ \E k \in 1..Len(eq_states) : \E a \in EqDnaAddresses :
          eq_states' = [eq_states EXCEPT ![k].fields.dna_address = a]
    /\ UNCHANGED <<eq_next_id, cmVars, vgVars, brVars, vcVars, nsVars, exVars, ksVars>>

\* a write of the pub field agent_id (line 35)
EqSetAgentId ==
    /\ \E k \in 1..Len(eq_states) : \E a \in EqAgentIds :
          eq_states' = [eq_states EXCEPT ![k].fields.agent_id = a]
    /\ UNCHANGED <<eq_next_id, cmVars, vgVars, brVars, vcVars, nsVars, exVars, ksVars>>

\* an insert into one of the pub maps (lines 32-48)
EqInsert ==
    /\ \E k \in 1..Len(eq_states) : \E e \in EqMapEntries :
          eq_states' = [eq_states EXCEPT ![k].maps = @ \cup {e}]
    /\ UNCHANGED <<eq_next_id, cmVars, vgVars, brVars, vcVars, nsVars, exVars, ksVars>>

InitEquality ==
    /\ CmIdle
    /\ VgIdle
    /\ BrIdle
    /\ VcIdle
    /\ NsIdle

NextEquality ==
    \/ EqNew
    \/ EqClone
    \/ EqSetDnaAddress
    \/ EqSetAgentId
    \/ EqInsert

SpecEquality == InitEquality /\ [][NextEquality]_vars

(***************************************************************************)
(* The conversion of a signal for observers outside the process            *)
(***************************************************************************)
ExportEvents ==
    { EvPublish(address(AppPublic)), EvHold(address(AppPublic)),
      EvUpdateEntry(CrudTarget, address(AppPublic)), EvSignalZomeFunctionCall(1) }

ExportPendingEvents ==
    { EvHold(address(AppPublic)), EvUpdateEntry(CrudTarget, address(AppPublic)),
      EvReturnZomeFunctionResult(1) }

\* the signals the two constructors make
ExportSignals ==
    { new_terminal(e) : e \in ExportEvents }
    \cup { new_pending(e, g, p) :
             e \in ExportEvents, g \in {"Source", "Validators"},
             p \in UNION { [1..n -> ExportPendingEvents] : n \in 1..MaxPending } }

InitExport ==
    /\ CmIdle
    /\ VgIdle
    /\ BrIdle
    /\ VcIdle
    /\ ns_network = None
    /\ ns_dna_address = None
    /\ ns_agent_id = None
    /\ ns_results = << >>
    /\ ex_signal \in ExportSignals
    /\ ex_exported = None
    /\ KsIdle
    /\ EqIdle

ApplyFrom ==
    /\ ex_exported = None
    /\ ex_exported' = Some(From(ex_signal))
    /\ UNCHANGED <<ex_signal, cmVars, vgVars, brVars, vcVars, nsVars, ksVars, eqVars>>

NextExport == ApplyFrom

SpecExport == InitExport /\ [][NextExport]_vars

(***************************************************************************)
(* Reading the history                                                     *)
(***************************************************************************)
Steps == 1..Len(trace)

\* step i processed a Commit of a non-agent entry whose address is a
IsCommitOf(i, a) ==
    /\ trace[i].action.type = "Commit"
    /\ trace[i].action.entry.kind # "AgentId"
    /\ address(trace[i].action.entry) = a

\* step i processed Publish(a)
IsPublishOf(i, a) ==
    /\ trace[i].action.type = "Publish"
    /\ trace[i].action.addr = a

\* no Commit and no Publish for address a strictly between steps i and j
Quiet(a, i, j) ==
    \A k \in (i + 1)..(j - 1) : ~IsCommitOf(k, a) /\ ~IsPublishOf(k, a)

\* the entry committed at step i can be published
CommitsPublishable(i) ==
    /\ trace[i].action.type = "Commit"
    /\ trace[i].action.entry.kind # "AgentId"
    /\ can_publish(trace[i].action.entry, trace[i].ctx)

\* the events of a signal's pending list
PendingEvents(signal) == { signal.pending[n].event : n \in 1..Len(signal.pending) }

(***************************************************************************)
(* C1: a Commit of a publishable entry E without crud-link emits nothing,  *)
(* and the next Publish(address(E)) (no other Commit of that address in    *)
(* between) emits one signal: headline Publish(address(E)), pending list   *)
(* exactly [Hold(address(E))], group Validators.                           *)
(***************************************************************************)
C1_CommitThenPublish ==
    \A i \in Steps :
        (CommitsPublishable(i) /\ trace[i].action.crud_link = None) =>
            LET a == address(trace[i].action.entry)
            IN  /\ trace[i].out = None
                /\ \A j \in Steps :
                      (i < j /\ IsPublishOf(j, a) /\ Quiet(a, i, j)) =>
                          trace[j].out =
                              Some([event |-> EvPublish(a),
                                    pending |-> << [event |-> EvHold(a),
                                                    group |-> "Validators"] >>])

C1_Witness ==
    \E i, j \in Steps :
        /\ i < j
        /\ CommitsPublishable(i)
        /\ trace[i].action.crud_link = None
        /\ IsPublishOf(j, address(trace[i].action.entry))
        /\ Quiet(address(trace[i].action.entry), i, j)
        /\ IsSome(trace[j].out)

(***************************************************************************)
(* C2: a Publish(a) removes the cache entry of a and emits what was cached;*)
(* a further Publish(a) with no new Commit for a in between emits nothing. *)
(***************************************************************************)
C2_EmittedAtMostOnce ==
    \A j \in Steps : \A a \in Addresses :
        IsPublishOf(j, a) =>
            /\ a \notin DOMAIN trace[j].after
            /\ (a \in DOMAIN trace[j].before => trace[j].out = Some(trace[j].before[a]))
            /\ \A i \in Steps :
                  (i < j /\ IsPublishOf(i, a) /\ \A k \in (i + 1)..(j - 1) : ~IsCommitOf(k, a))
                      => trace[j].out = None

C2_Witness ==
    \E h, i, j \in Steps : \E a \in Addresses :
        /\ h < i /\ i < j
        /\ IsCommitOf(h, a)
        /\ IsPublishOf(i, a) /\ IsSome(trace[i].out)
        /\ IsPublishOf(j, a) /\ trace[j].out = None

(***************************************************************************)
(* C3: Publish(a) when nothing is cached for a (a was never committed      *)
(* locally, or was published since its last Commit) emits no signal and    *)
(* leaves the commit cache as it was.                                      *)
(***************************************************************************)
NoPendingCommit(j, a) ==
    \A i \in Steps :
        (i < j /\ IsCommitOf(i, a)) => \E k \in (i + 1)..(j - 1) : IsPublishOf(k, a)

C3_PublishWithoutCommit ==
    \A j \in Steps : \A a \in Addresses :
        (IsPublishOf(j, a) /\ (a \notin DOMAIN trace[j].before \/ NoPendingCommit(j, a))) =>
            /\ trace[j].out = None
            /\ trace[j].after = trace[j].before

C3_Witness ==
    \E i, j \in Steps : \E a, b \in Addresses :
        /\ i < j
        /\ a # b
        /\ IsCommitOf(i, b) /\ b \in DOMAIN trace[i].after
        /\ IsPublishOf(j, a) /\ NoPendingCommit(j, a)
        /\ trace[j].out = None
        /\ b \in DOMAIN trace[j].after

(***************************************************************************)
(* C4: of two Commits for the same address with no Publish of it between   *)
(* them, the cache keeps the signal of the later one only, and the Publish *)
(* that follows emits that signal.                                         *)
(***************************************************************************)
C4_LastCommitWins ==
    \A i, j \in Steps : \A a \in Addresses :
        (i < j /\ IsCommitOf(i, a) /\ IsCommitOf(j, a) /\ Quiet(a, i, j)
               /\ a \in DOMAIN trace[i].after) =>
            LET later == commit_signal(trace[j].action.entry, trace[j].action.crud_link)
            IN  /\ a \in DOMAIN trace[j].after
                /\ trace[j].after[a] = later
                /\ \A k \in Steps :
                      (j < k /\ IsPublishOf(k, a) /\ Quiet(a, j, k)) =>
                          trace[k].out = Some(later)

C4_Witness ==
    \E i, j, k \in Steps : \E a \in Addresses :
        /\ i < j /\ j < k
        /\ IsCommitOf(i, a) /\ IsCommitOf(j, a) /\ IsPublishOf(k, a)
        /\ trace[i].action.crud_link # trace[j].action.crud_link
        /\ trace[i].after[a] # trace[j].after[a]
        /\ trace[k].out = Some(trace[j].after[a])

(***************************************************************************)
(* C5: a publishable App entry committed with crud-link L, then published: *)
(* the emitted signal's pending list holds Hold(address) and               *)
(* UpdateEntry(L, address).                                                *)
(***************************************************************************)
C5_UpdatePending ==
    \A i, j \in Steps :
        (/\ i < j
         /\ CommitsPublishable(i)
         /\ trace[i].action.entry.kind = "App"
         /\ IsSome(trace[i].action.crud_link)
         /\ IsPublishOf(j, address(trace[i].action.entry))
         /\ Quiet(address(trace[i].action.entry), i, j)) =>
            LET a == address(trace[i].action.entry)
                L == Unwrap(trace[i].action.crud_link)
            IN  /\ IsSome(trace[j].out)
                /\ Unwrap(trace[j].out).event = EvPublish(a)
                /\ EvHold(a) \in PendingEvents(Unwrap(trace[j].out))
                /\ EvUpdateEntry(L, a) \in PendingEvents(Unwrap(trace[j].out))

C5_Witness ==
    \E i, j \in Steps :
        /\ i < j
        /\ CommitsPublishable(i)
        /\ trace[i].action.entry.kind = "App"
        /\ trace[i].action.crud_link = Some(CrudTarget)
        /\ IsPublishOf(j, address(trace[i].action.entry))
        /\ Quiet(address(trace[i].action.entry), i, j)
        /\ Len(Unwrap(trace[j].out).pending) = 2

(***************************************************************************)
(* Reading a capability request                                            *)
(***************************************************************************)
\* the grant lists the call's function under the call's zome
Authorised(grant, call) ==
    /\ call.zome_name \in DOMAIN grant.functions
    /\ call.fn_name \in grant.functions[call.zome_name]

\* the oracle accepts the provenance for the call's own function and parameters
SignatureVerifies(call) ==
    provenance_verify(call.cap.provenance,
                      base64_encode(call.fn_name \o << ":" >> \o call.parameters)) = "true"

\* the caller is on the grant's list of assignees
IsAssignee(grant, call) ==
    /\ IsSome(grant.assignees)
    /\ call.cap.provenance.source \in Unwrap(grant.assignees)

\* the five conditions of a successful verification
GrantConditions(grant, call) ==
    /\ Authorised(grant, call)
    /\ grant.token = call.cap.cap_token
    /\ SignatureVerifies(call)
    /\ (cap_type(grant) = "Assigned" => IsAssignee(grant, call))

(***************************************************************************)
(* C7: verify_grant returns true exactly when the grant has an entry for   *)
(* the call's zome, the entry lists the function, the tokens are equal,    *)
(* the provenance signature verifies and, for an Assigned grant, the       *)
(* source is an assignee; otherwise it returns false.                      *)
(***************************************************************************)
C7_VerifyGrantExactly ==
    IsSome(vg_result) =>
        Unwrap(vg_result) = (IF GrantConditions(vg_grant, vg_call) THEN "true" ELSE "false")

\* the part of C7 that the code keeps: true exactly under the five conditions
C7_TrueExactly ==
    IsSome(vg_result) =>
        ((Unwrap(vg_result) = "true") <=> GrantConditions(vg_grant, vg_call))

(***************************************************************************)
(* C8: whatever the grant's type, a call whose token differs from the      *)
(* grant's token is rejected, also when its signature verifies, its        *)
(* function is authorised and its caller is an assignee.                   *)
(***************************************************************************)
C8_TokenMustMatch ==
    (IsSome(vg_result) /\ vg_grant.token # vg_call.cap.cap_token) =>
        Unwrap(vg_result) = "false"

C8_Witness ==
    /\ IsSome(vg_result)
    /\ vg_grant.token # vg_call.cap.cap_token
    /\ cap_type(vg_grant) = "Assigned"
    /\ Authorised(vg_grant, vg_call)
    /\ SignatureVerifies(vg_call)
    /\ IsAssignee(vg_grant, vg_call)
    /\ Unwrap(vg_result) = "false"

(***************************************************************************)
(* C9: of calls that differ in the caller only, each signed by its caller  *)
(* for the function and parameters it names, an Assigned grant with        *)
(* assignees {A} accepts the one from A and rejects the one from B; a      *)
(* Public or Transferable grant with the same token accepts both.          *)
(***************************************************************************)
SignedByCaller(call) ==
    \E k \in AgentKeys :
        call.cap = make_cap_request_for_call(k, call.cap.cap_token, call.fn_name,
                                             call.parameters)

C9_AssigneesOnly ==
    (/\ IsSome(vg_result)
     /\ SignedByCaller(vg_call)
     /\ Authorised(vg_grant, vg_call)
     /\ vg_grant.token = vg_call.cap.cap_token) =>
        /\ (vg_grant.assignees = Some({AliceKey}) /\ vg_call.cap.provenance.source = AliceKey)
              => Unwrap(vg_result) = "true"
        /\ (vg_grant.assignees = Some({AliceKey}) /\ vg_call.cap.provenance.source = BobKey)
              => Unwrap(vg_result) = "false"
        /\ cap_type(vg_grant) \in {"Public", "Transferable"} => Unwrap(vg_result) = "true"

C9_Witness ==
    /\ IsSome(vg_result)
    /\ SignedByCaller(vg_call)
    /\ Authorised(vg_grant, vg_call)
    /\ vg_grant.token = vg_call.cap.cap_token
    /\ vg_grant.assignees = Some({AliceKey})
    /\ vg_call.cap.provenance.source = BobKey
    /\ Unwrap(vg_result) = "false"

(***************************************************************************)
(* C10: a signature made by S for function f and parameters p is accepted  *)
(* only for claimed source S, function f and parameters p; so verify_grant *)
(* rejects a call whose request was signed for another function.           *)
(***************************************************************************)
\* the signature of the call under examination was made by k for (f, p)
SignedFor(k, f, p) ==
    vg_call.cap.provenance.signature = Sign(k, encode_call_data_for_signing(f, p))

C10_ExactCallOnly ==
    \A k \in AgentKeys, f \in FnNames, p \in ParamStrings :
        SignedFor(k, f, p) =>
            /\ sig_result = Some("true") =>
                  (/\ vg_call.cap.provenance.source = k
                   /\ vg_call.fn_name = f
                   /\ vg_call.parameters = p)
            /\ (IsSome(vg_result) /\ vg_call.fn_name # f) => Unwrap(vg_result) # "true"

(***************************************************************************)
(* Reading the action stream and the emitted signals of the zome calls     *)
(***************************************************************************)
IsSignalOf(action, call) ==
    action.type = "SignalZomeFunctionCall" /\ action.call = call

IsReturnOf(action, call) ==
    action.type = "ReturnZomeFunctionResult" /\ action.response.call = call

\* the signal the consistency model emits for SignalZomeFunctionCall(id)
CallPendingSignal(id) ==
    new_pending(EvSignalZomeFunctionCall(id), "Source", << EvReturnZomeFunctionResult(id) >>)

\* the signal the consistency model emits for ReturnZomeFunctionResult(id)
CallTerminalSignal(id) == new_terminal(EvReturnZomeFunctionResult(id))

(***************************************************************************)
(* C6: for concurrent calls with distinct ids, under every interleaving of *)
(* the callers, their threads and the reducing loop: each call's           *)
(* ReturnZomeFunctionResult is sent to the action stream strictly after    *)
(* its SignalZomeFunctionCall; the pending signal of a call is emitted     *)
(* before its terminal signal; and every id has at most one announcement   *)
(* and one return, so the pairing by id is never confused.                 *)
(***************************************************************************)
C6_SignalBeforeReturn ==
    /\ \A j \in 1..Len(stream) : \A c \in CallIds :
          IsReturnOf(stream[j], calls[c]) =>
             \E i \in 1..(j - 1) : IsSignalOf(stream[i], calls[c])
    /\ \A j \in 1..Len(signals) : \A c \in CallIds :
          signals[j] = CallTerminalSignal(c) =>
             \E i \in 1..(j - 1) : signals[i] = CallPendingSignal(c)
    /\ \A c \in CallIds :
          /\ Cardinality({ i \in 1..Len(stream) : IsSignalOf(stream[i], calls[c]) }) <= 1
          /\ Cardinality({ i \in 1..Len(stream) : IsReturnOf(stream[i], calls[c]) }) <= 1
          /\ Cardinality({ i \in 1..Len(signals) : signals[i] = CallPendingSignal(c) }) <= 1
          /\ Cardinality({ i \in 1..Len(signals) : signals[i] = CallTerminalSignal(c) }) <= 1
    /\ \A j \in 1..Len(stream) : \E c \in CallIds :
          IsSignalOf(stream[j], calls[c]) \/ IsReturnOf(stream[j], calls[c])

\* two calls overlap: both are announced before either returns, the second returns
\* first, and all four signals have been emitted
C6_Witness ==
    /\ Len(stream) = 4
    /\ IsSignalOf(stream[1], calls[1])
    /\ IsSignalOf(stream[2], calls[2])
    /\ IsReturnOf(stream[3], calls[2])
    /\ IsReturnOf(stream[4], calls[1])
    /\ signals = << CallPendingSignal(1), CallPendingSignal(2),
                    CallTerminalSignal(2), CallTerminalSignal(1) >>

(***************************************************************************)
(* Reading a validation                                                    *)
(***************************************************************************)
\* the state, the DNA, the call's zome and the call's function all exist
Resolves(c, call) ==
    /\ c.state
    /\ c.dna
    /\ call.zome_name \in DOMAIN DnaZomes
    /\ call.fn_name \in DnaZomes[call.zome_name]

\* the token is the local agent's key and the signature verifies for the call
SelfCall(call) ==
    /\ call.cap.cap_token = LocalAgentKey
    /\ SignatureVerifies(call)

\* a grant is on the chain at the call's token
GrantOnChain(c, call) ==
    LET r == get_entry_from_agent_chain(c, call.cap.cap_token)
    IN  r.ok /\ IsSome(r.entry) /\ Unwrap(r.entry).kind = "CapTokenGrant"

(***************************************************************************)
(* C11: when DNA, zome and function exist, validate_call succeeds iff      *)
(* check_capability holds or the token is the local agent's key and the    *)
(* signature verifies for the call; in every other case it returns         *)
(* CapabilityCheckFailed.                                                  *)
(***************************************************************************)
C11_ValidateIff ==
    (IsSome(vc_result) /\ Resolves(ctx, vc_call)) =>
        Unwrap(vc_result) =
            (IF check_capability(ctx, vc_call) = "true" \/ SelfCall(vc_call)
             THEN "Ok" ELSE "CapabilityCheckFailed")

\* the part of C11 that the code keeps: success exactly under the two conditions,
\* a self-signed call with the agent's key as token succeeds without a grant, a
\* well-signed call whose token is neither a grant nor the agent's key fails
C11_SuccessExactly ==
    (IsSome(vc_result) /\ Resolves(ctx, vc_call)) =>
        /\ (Unwrap(vc_result) = "Ok") <=>
              (check_capability(ctx, vc_call) = "true" \/ SelfCall(vc_call))
        /\ (SelfCall(vc_call) /\ ~GrantOnChain(ctx, vc_call)) => Unwrap(vc_result) = "Ok"
        /\ (vc_call.cap.cap_token = BadToken /\ SignatureVerifies(vc_call))
              => Unwrap(vc_result) = "CapabilityCheckFailed"

(***************************************************************************)
(* C12: a call admitted through the self-call bypass (validation succeeds  *)
(* though no grant admits the call) is signed by the local agent itself:   *)
(* its provenance source is the local agent's address and its signature    *)
(* was made with the local agent's key.                                    *)
(***************************************************************************)
C12_BypassOnlySelf ==
    (vc_result = Some("Ok") /\ check_capability(ctx, vc_call) # "true") =>
        /\ vc_call.cap.provenance.source = LocalAgentKey
        /\ vc_call.cap.provenance.signature.signer = LocalAgentKey


(***************************************************************************)
(* C19: validate_call checks state, DNA, zome, function, capability in     *)
(* this order and the first failing check decides the error; a call that   *)
(* names a missing DNA, zome or function gets that error and never         *)
(* CapabilityCheckFailed, whatever its capability request.                 *)
(***************************************************************************)
C19_FirstFailingCheck ==
    IsSome(vc_result) =>
        /\ ~ctx.state => Unwrap(vc_result) = "Context not initialized"
        /\ (ctx.state /\ ~ctx.dna) => Unwrap(vc_result) = "DnaMissing"
        /\ (ctx.state /\ ctx.dna /\ vc_call.zome_name \notin DOMAIN DnaZomes)
              => Unwrap(vc_result) = "ZomeNotFound"
        /\ (/\ ctx.state /\ ctx.dna /\ vc_call.zome_name \in DOMAIN DnaZomes
            /\ vc_call.fn_name \notin DnaZomes[vc_call.zome_name])
              => Unwrap(vc_result) = "ZomeFunctionNotFound"
        /\ ~Resolves(ctx, vc_call) => Unwrap(vc_result) \notin {"CapabilityCheckFailed", "Ok"}

\* a call to a function the zome lacks, whose capability request would be refused
C19_Witness ==
    /\ vc_result = Some("ZomeFunctionNotFound")
    /\ ctx.state /\ ctx.dna
    /\ vc_call.zome_name \in DOMAIN DnaZomes
    /\ vc_call.cap.cap_token = BadToken
    /\ capability_ok(ctx, vc_call) = "false"

(***************************************************************************)
(* C20: check_capability finds a grant only when the entry on the local    *)
(* agent's chain at the call's token address is a CapTokenGrant, and then  *)
(* returns verify_grant of that grant; with no entry there, a failed       *)
(* lookup or an entry of another kind it returns false, raising no error.  *)
(***************************************************************************)
C20_GrantLookup ==
    IsSome(cc_result) =>
        LET r == get_entry_from_agent_chain(ctx, vc_call.cap.cap_token)
        IN  IF r.ok /\ IsSome(r.entry) /\ Unwrap(r.entry).kind = "CapTokenGrant"
            THEN Unwrap(cc_result) = verify_grant(Unwrap(r.entry).grant, vc_call)
            ELSE Unwrap(cc_result) = "false"

\* the entry at the token is an app entry whose content, were it taken for a grant,
\* would admit the call
C20_Witness ==
    /\ cc_result = Some("false")
    /\ ctx.state
    /\ LET r == get_entry_from_agent_chain(ctx, vc_call.cap.cap_token)
       IN  /\ r.ok
           /\ IsSome(r.entry)
           /\ Unwrap(r.entry).kind = "App"
           /\ verify_grant(Unwrap(r.entry).grant, vc_call) = "true"


(***************************************************************************)
(* Reading a call_zome_function invocation                                 *)
(***************************************************************************)
ValidationErrors ==
    {"Context not initialized", "DnaMissing", "ZomeNotFound", "ZomeFunctionNotFound",
     "CapabilityCheckFailed"}

\* some action of invocation i was sent, reduced or answered, or its thread started
Dispatched(i) ==
    \/ \E j \in 1..Len(stream) :
          IsSignalOf(stream[j], calls[i]) \/ IsReturnOf(stream[j], calls[i])
    \/ \E j \in 1..Len(signals) :
          signals[j] \in {CallPendingSignal(i), CallTerminalSignal(i)}
    \/ worker[i] # "none"
    \/ calls[i] \in DOMAIN zome_call_results

(***************************************************************************)
(* C13: a call whose validation fails (state, DNA, zome or function        *)
(* missing, capability refused) makes call_zome_function return that error *)
(* with no action dispatched and no thread started; and the validation     *)
(* step itself changes nothing of the shared state, whatever its outcome.  *)
(***************************************************************************)
C13_FailedValidationDispatchesNothing ==
    /\ [](\A i \in CallIds :
            validate_call(ctx, calls[i]) \in ValidationErrors =>
               /\ ~Dispatched(i)
               /\ IsSome(outcome[i]) =>
                     outcome[i] = Some(Err(<< validate_call(ctx, calls[i]) >>)))
    /\ [][\A i \in CallIds :
            Validate(i) => UNCHANGED <<action_channel, channel_open, stream, signals,
                                       zome_call_results, worker, commit_cache,
                                       agent_id, ctx>>]_vars

\* one call was refused and returned while the other went through to its result
C13_Witness ==
    /\ outcome[1] = Some(Err(<< "CapabilityCheckFailed" >>))
    /\ IsSome(outcome[2])
    /\ Unwrap(outcome[2]).tag = "Ok"
    /\ Len(stream) = 2

(***************************************************************************)
(* C15: with the action channel closed, an invocation that passed          *)
(* validation ends by returning an error value to its caller, never by a   *)
(* panic, be the closure met at the announcement or while awaiting.        *)
(***************************************************************************)
C15_ClosedChannelIsAnError ==
    \A i \in CallIds :
        (IsSome(outcome[i]) /\ validate_call(ctx, calls[i]) = "Ok") =>
            Unwrap(outcome[i]).tag # "Panic"

\* the part of C15 that the code keeps: a closure met while awaiting is returned
\* as the channel's error
C15_AwaitReturnsChannelError ==
    [][\A i \in CallIds :
          (At(i, "await") /\ ~channel_open /\ pc'[i] = 0) =>
             outcome'[i] = Some(Err(<< "action channel closed" >>))]_vars

(***************************************************************************)
(* C17: provided the action channel stays open, every call that passed        *)
(* validation eventually resolves, and with the result of its own          *)
(* function execution.                                                     *)
(***************************************************************************)
C17_ValidatedCallResolves ==
    \A i \in CallIds :
        (pc[i] > 1) ~>
            /\ IsSome(outcome[i])
            /\ calls[i] \in DOMAIN zome_call_results
            /\ Unwrap(outcome[i]) = zome_call_results[calls[i]]
            /\ Unwrap(outcome[i]) \in RunResults(calls[i])

\* both calls were validated and both have returned their own results
C17_Witness ==
    /\ channel_open
    /\ \A i \in CallIds :
          /\ IsSome(outcome[i])
          /\ Unwrap(outcome[i]) \in RunResults(calls[i])


(***************************************************************************)
(* C14: CallResultFuture::poll decides in this order: a closed channel     *)
(* resolves it with the channel's error, even when the call's result is in *)
(* the state; else a missing state resolves it with the state-not-         *)
(* initialized error; else the stored result of its call resolves it, and  *)
(* with no stored result it stays pending.                                 *)
(***************************************************************************)
C14_PollOrder ==
    [][\A i \in CallIds :
          At(i, "await") =>
             IF ~channel_open
             THEN pc'[i] = 0 => outcome'[i] = Some(Err(<< "action channel closed" >>))
             ELSE IF ~ctx.state
             THEN pc'[i] = 0 => outcome'[i] = Some(Err(<< "State not initialized" >>))
             ELSE IF calls[i] \in DOMAIN zome_call_results
             THEN pc'[i] = 0 => outcome'[i] = Some(zome_call_results[calls[i]])
             ELSE pc'[i] = pc[i] /\ outcome'[i] = None]_vars

\* the future resolved with the channel's error though its result was stored
C14_Witness ==
    /\ ~channel_open
    /\ calls[1] \in DOMAIN zome_call_results
    /\ outcome[1] = Some(Err(<< "action channel closed" >>))
    /\ pc[2] = AwaitStep


(***************************************************************************)
(* C16: capability verification is total: for every grant and every call,  *)
(* also when the oracle cannot check the signature or the source,          *)
(* verify_grant and verify_call_sig return a boolean and never fault.      *)
(***************************************************************************)
C16_VerificationTotal ==
    /\ IsSome(vg_result) => Unwrap(vg_result) \in {"true", "false"}
    /\ IsSome(sig_result) => Unwrap(sig_result) \in {"true", "false"}

(***************************************************************************)
(* C18: NetworkState::initialized returns Ok exactly when the network      *)
(* handle, the dna address and the agent id are all set, and the 'Network  *)
(* not initialized' error when any of them is missing; a new NetworkState  *)
(* is not initialized; the call changes nothing.                           *)
(***************************************************************************)
C18_InitializedExactly ==
    \A k \in 1..Len(ns_results) :
        LET r == ns_results[k]
            all_set == /\ r.before.network # None
                       /\ r.before.dna_address # None
                       /\ r.before.agent_id # None
        IN  /\ all_set => r.result = Ok(<< >>)
            /\ ~all_set => r.result = Err(<< "Network not initialized" >>)
            /\ r.before = NetworkState_new => r.result # Ok(<< >>)
            /\ r.after = r.before

\* asked twice: with the agent id still missing, and again once all three are set
C18_Witness ==
    /\ Len(ns_results) = 2
    /\ ns_results[1].before.network # None
    /\ ns_results[1].before.dna_address # None
    /\ ns_results[1].before.agent_id = None
    /\ ns_results[1].result = Err(<< "Network not initialized" >>)
    /\ ns_results[2].result = Ok(<< >>)


(***************************************************************************)
(* C30: the exported form of a signal keeps its structure: the headline    *)
(* event serialized, as many pending events as before and in the same      *)
(* order, each serialized on its own and each with its original group.     *)
(***************************************************************************)
C30_ExportKeepsStructure ==
    IsSome(ex_exported) =>
        LET x == Unwrap(ex_exported)
        IN  /\ x.event = to_string(ex_signal.event)
            /\ Len(x.pending) = Len(ex_signal.pending)
            /\ \A k \in 1..Len(ex_signal.pending) :
                  /\ x.pending[k].event = to_string(ex_signal.pending[k].event)
                  /\ x.pending[k].group = ex_signal.pending[k].group

\* a signal with two different pending events of the group Validators was converted
C30_Witness ==
    /\ IsSome(ex_exported)
    /\ Len(ex_signal.pending) = 2
    /\ ex_signal.pending[1].event # ex_signal.pending[2].event
    /\ ex_signal.pending[1].group = "Validators"
    /\ Unwrap(ex_exported).pending[2].event = to_string(ex_signal.pending[2].event)


(***************************************************************************)
(* Reading the Commits of the history                                      *)
(***************************************************************************)
\* step i processed a Commit of a non-agent entry that was cached
CachedCommit(i) ==
    /\ trace[i].action.type = "Commit"
    /\ trace[i].action.entry.kind # "AgentId"
    /\ address(trace[i].action.entry) \in DOMAIN trace[i].after
    /\ trace[i].after # trace[i].before
          \/ address(trace[i].action.entry) \in DOMAIN trace[i].before

\* the signal that step i left in the cache for the entry it committed
CachedSignal(i) == trace[i].after[address(trace[i].action.entry)]

\* the pending events of a signal other than the Hold
TypeEffects(signal, a) == PendingEvents(signal) \ {EvHold(a)}

(***************************************************************************)
(* C21: the signal cached for a publishable Deletion, LinkAdd or           *)
(* LinkRemove entry has, besides Hold(address), the effect of its kind     *)
(* (RemoveEntry, AddLink, RemoveLink); an App update has UpdateEntry;      *)
(* entries of other kinds have Hold only; never more than one effect.      *)
(***************************************************************************)
C21_TypeEffect ==
    \A i \in Steps :
        (CachedCommit(i) /\ CommitsPublishable(i)) =>
            LET e == trace[i].action.entry
                cl == trace[i].action.crud_link
                a == address(e)
                sig == CachedSignal(i)
            IN  /\ EvHold(a) \in PendingEvents(sig)
                /\ Cardinality(TypeEffects(sig, a)) <= 1
                /\ Len(sig.pending) <= 2
                /\ e.kind = "Deletion" =>
                      \E old \in {CrudTarget} : EvRemoveEntry(old, a) \in PendingEvents(sig)
                /\ e.kind = "LinkAdd" => EvAddLink(link_data(e)) \in PendingEvents(sig)
                /\ e.kind = "LinkRemove" => EvRemoveLink(e) \in PendingEvents(sig)
                /\ (e.kind = "App" /\ IsSome(cl)) =>
                      EvUpdateEntry(Unwrap(cl), a) \in PendingEvents(sig)
                /\ (e.kind = "App" /\ ~IsSome(cl)) => TypeEffects(sig, a) = {}
                /\ e.kind \notin {"App", "Deletion", "LinkAdd", "LinkRemove"} =>
                      TypeEffects(sig, a) = {}

\* the part of C21 that the code keeps: with a crud-link the effect of the kind is
\* there, without one there is Hold only, and there is never more than one effect
C21_TypeEffectWithCrudLink ==
    \A i \in Steps :
        CachedCommit(i) =>
            LET e == trace[i].action.entry
                cl == trace[i].action.crud_link
                a == address(e)
                sig == CachedSignal(i)
            IN  /\ sig.pending[1].event = EvHold(a)
                /\ Len(sig.pending) <= 2
                /\ ~IsSome(cl) => Len(sig.pending) = 1
                /\ (IsSome(cl) /\ e.kind = "Deletion") =>
                      sig.pending[2].event = EvRemoveEntry(Unwrap(cl), a)
                /\ (IsSome(cl) /\ e.kind = "LinkAdd") =>
                      sig.pending[2].event = EvAddLink(link_data(e))
                /\ (IsSome(cl) /\ e.kind = "LinkRemove") =>
                      sig.pending[2].event = EvRemoveLink(e)
                /\ (IsSome(cl) /\ e.kind = "App") =>
                      sig.pending[2].event = EvUpdateEntry(Unwrap(cl), a)
                /\ e.kind \notin {"App", "Deletion", "LinkAdd", "LinkRemove"} =>
                      Len(sig.pending) = 1

(***************************************************************************)
(* C28: publishability is decided at Commit: without state or without DNA  *)
(* the commit is cached as if publishable; with both, an entry that cannot *)
(* be published is not cached, and a Publish of it that follows emits no   *)
(* signal.                                                                 *)
(***************************************************************************)
C28_DecidedAtCommit ==
    \A i \in Steps :
        (trace[i].action.type = "Commit" /\ trace[i].action.entry.kind # "AgentId") =>
            LET e == trace[i].action.entry
                a == address(e)
                c == trace[i].ctx
            IN  /\ (~c.state \/ ~c.dna) =>
                      /\ a \in DOMAIN trace[i].after
                      /\ trace[i].after[a].event = EvPublish(a)
                      /\ EvHold(a) \in PendingEvents(trace[i].after[a])
                /\ (c.state /\ c.dna /\ ~can_publish(e, c)) =>
                      /\ trace[i].after = trace[i].before
                      /\ a \notin DOMAIN trace[i].after
                      /\ \A j \in Steps :
                            (j = i + 1 /\ IsPublishOf(j, a)) => trace[j].out = None

\* with state and DNA a private app entry was committed and then published in vain
C28_Witness ==
    /\ Len(trace) = 2
    /\ ctx.state /\ ctx.dna
    /\ trace[1].action.type = "Commit"
    /\ trace[1].action.entry = AppPrivate
    /\ IsPublishOf(2, address(AppPrivate))
    /\ trace[2].out = None

(***************************************************************************)
(* C29: a Commit of the agent-identity entry records that agent id (a      *)
(* later one replaces it, it is never reset to none), emits no signal and  *)
(* leaves the commit cache as it was.                                      *)
(***************************************************************************)
C29_AgentCommit ==
    \A i \in Steps :
        /\ (trace[i].action.type = "Commit" /\ trace[i].action.entry.kind = "AgentId") =>
              /\ trace[i].agent_after = Some(trace[i].action.entry.tag)
              /\ trace[i].out = None
              /\ trace[i].after = trace[i].before
        /\ IsSome(trace[i].agent_before) => IsSome(trace[i].agent_after)
        /\ ~(trace[i].action.type = "Commit" /\ trace[i].action.entry.kind = "AgentId") =>
              trace[i].agent_after = trace[i].agent_before

\* one agent was recorded, then another replaced it
C29_Witness ==
    /\ Len(trace) = 2
    /\ trace[1].action.type = "Commit"
    /\ trace[1].action.entry = AgentEntry
    /\ trace[2].action.type = "Commit"
    /\ trace[2].action.entry = AgentEntryBob
    /\ agent_id = Some(AgentEntryBob.tag)
    /\ trace[2].agent_before = Some(AgentEntry.tag)


(***************************************************************************)
(* Reading the signals of the history                                      *)
(***************************************************************************)
\* step i emitted exactly this signal and left the cache as it was
EmitsOnly(i, signal) ==
    /\ trace[i].out = Some(signal)
    /\ trace[i].after = trace[i].before

(***************************************************************************)
(* C25: the pending event a cause signal predicts is the headline event of *)
(* the terminal signal emitted when the effect is processed later: for     *)
(* SignalZomeFunctionCall and ReturnZomeFunctionResult of the same call,   *)
(* for AddPendingValidation of an entry and RemovePendingValidation of its *)
(* address, for the published Commit of an entry and the Hold of it.       *)
(***************************************************************************)
C25_PredictedIsEmitted ==
    \A i \in Steps : \A j \in Steps :
        (i < j /\ IsSome(trace[i].out) /\ IsSome(trace[j].out)) =>
            LET cause == trace[i].action
                effect == trace[j].action
                predicted == PendingEvents(Unwrap(trace[i].out))
                emitted == Unwrap(trace[j].out).event
            IN  /\ (/\ cause.type = "SignalZomeFunctionCall"
                    /\ effect.type = "ReturnZomeFunctionResult"
                    /\ effect.response.call = cause.call) => predicted = {emitted}
                /\ (/\ cause.type = "AddPendingValidation"
                    /\ effect.type = "RemovePendingValidation"
                    /\ effect.addr = address(cause.entry)) => predicted = {emitted}
                /\ (/\ cause.type = "Publish"
                    /\ effect.type = "Hold"
                    /\ cause.addr = address(effect.entry)) => emitted \in predicted

\* an entry was committed, published and held
C25_Witness ==
    /\ Len(trace) = 3
    /\ trace[1].action.type = "Commit"
    /\ trace[2].action.type = "Publish"
    /\ IsSome(trace[2].out)
    /\ trace[3].action.type = "Hold"
    /\ address(trace[3].action.entry) = trace[2].action.addr
    /\ Unwrap(trace[3].out).event = Unwrap(trace[2].out).pending[1].event

(***************************************************************************)
(* C26: AddPendingValidation(v) and SignalZomeFunctionCall(call) emit at   *)
(* once, caching nothing, a signal headed by that event with exactly one   *)
(* pending event, RemovePendingValidation(address of v's entry) resp.      *)
(* ReturnZomeFunctionResult(call id), of the group Source.                 *)
(***************************************************************************)
C26_CauseEmitsAtOnce ==
    \A i \in Steps :
        LET action == trace[i].action
        IN  /\ action.type = "AddPendingValidation" =>
                  EmitsOnly(i, [event |-> EvAddPendingValidation(address(action.entry)),
                                pending |-> << [event |->
                                                  EvRemovePendingValidation(address(action.entry)),
                                                group |-> "Source"] >>])
            /\ action.type = "SignalZomeFunctionCall" =>
                  EmitsOnly(i, [event |-> EvSignalZomeFunctionCall(action.call.id),
                                pending |-> << [event |->
                                                  EvReturnZomeFunctionResult(action.call.id),
                                                group |-> "Source"] >>])

\* both kinds were processed while a commit was waiting in the cache
C26_Witness ==
    /\ Len(trace) = 3
    /\ trace[1].action.type = "Commit"
    /\ trace[1].after # << >>
    /\ trace[2].action.type = "AddPendingValidation"
    /\ trace[3].action.type = "SignalZomeFunctionCall"
    /\ Len(Unwrap(trace[2].out).pending) = 1
    /\ Len(Unwrap(trace[3].out).pending) = 1
    /\ commit_cache = trace[1].after

(***************************************************************************)
(* C27: Hold, UpdateEntry, RemoveEntry, AddLink, RemoveLink,               *)
(* RemovePendingValidation and ReturnZomeFunctionResult each emit one      *)
(* terminal signal whose event carries the action's own data and whose     *)
(* pending list is empty; an action of a kind the model does not list      *)
(* emits no signal.                                                        *)
(***************************************************************************)
C27_EffectEmitsTerminal ==
    \A i \in Steps :
        LET action == trace[i].action
            Terminal(event) == EmitsOnly(i, [event |-> event, pending |-> << >>])
        IN  /\ action.type = "Hold" => Terminal(EvHold(address(action.entry)))
            /\ action.type = "UpdateEntry" => Terminal(EvUpdateEntry(action.old, action.new))
            /\ action.type = "RemoveEntry" => Terminal(EvRemoveEntry(action.old, action.new))
            /\ action.type = "AddLink" => Terminal(EvAddLink(action.link))
            /\ action.type = "RemoveLink" => Terminal(EvRemoveLink(action.entry))
            /\ action.type = "RemovePendingValidation" =>
                  Terminal(EvRemovePendingValidation(action.addr))
            /\ action.type = "ReturnZomeFunctionResult" =>
                  Terminal(EvReturnZomeFunctionResult(action.response.call.id))
            /\ action.type \notin {"Commit", "Publish", "Hold", "UpdateEntry", "RemoveEntry",
                                   "AddLink", "RemoveLink", "AddPendingValidation",
                                   "RemovePendingValidation", "SignalZomeFunctionCall",
                                   "ReturnZomeFunctionResult"} =>
                  /\ trace[i].out = None
                  /\ trace[i].after = trace[i].before

\* an effect nobody predicted, an unlisted action and a link effect were processed
C27_Witness ==
    /\ Len(trace) = 3
    /\ trace[1].action.type = "ReturnZomeFunctionResult"
    /\ trace[1].out = Some([event |-> EvReturnZomeFunctionResult(2), pending |-> << >>])
    /\ trace[2].action.type = "InitNetwork"
    /\ trace[2].out = None
    /\ trace[3].action.type = "AddLink"
    /\ IsSome(trace[3].out)


(***************************************************************************)
(* The phases of a call                                                    *)
(***************************************************************************)
\* the call's validation was done and succeeded
Validated(i) ==
    /\ pc[i] = 0 \/ \E k \in 1..(pc[i] - 1) : CallerSteps[k] = "validate"
    /\ validate_call(ctx, calls[i]) = "Ok"

Announced(i) == \E j \in 1..Len(stream) : IsSignalOf(stream[j], calls[i])

\* the ReturnZomeFunctionResult actions sent for the call
ReturnsOf(i) == { j \in 1..Len(stream) : IsReturnOf(stream[j], calls[i]) }

\* 1 Requested, 2 CapabilityValidated, 3 Dispatched, 4 Executing, 5 Completed
Phase(i) ==
    IF worker[i] = "finished" THEN 5
    ELSE IF worker[i] = "running" THEN 4
    ELSE IF Announced(i) THEN 3
    ELSE IF Validated(i) THEN 2
    ELSE 1

(***************************************************************************)
(* C22: each call goes through the phases Requested, CapabilityValidated,  *)
(* Dispatched, Executing, Completed in that order, a step moving it to the *)
(* next phase or leaving it where it is; SignalZomeFunctionCall is in the  *)
(* stream only for a call whose validation succeeded, and the thread is    *)
(* started only for a call that was announced.                             *)
(***************************************************************************)
C22_PhasesInOrder ==
    /\ [](\A i \in CallIds :
            /\ Announced(i) => Validated(i)
            /\ worker[i] # "none" => Announced(i)
            /\ ReturnsOf(i) # {} => worker[i] = "finished")
    /\ [][\A i \in CallIds : Phase(i)' \in {Phase(i), Phase(i) + 1}]_vars

\* one call went through all the phases and got its result while another never
\* left the first
C22_Witness ==
    \E i \in CallIds : \E k \in CallIds :
        /\ Phase(i) = 5
        /\ IsSome(outcome[i])
        /\ Unwrap(outcome[i]) \in RunResults(calls[i])
        /\ Phase(k) = 1
        /\ pc[k] = 0

C24_OwnResult ==
    \A i \in CallIds :
        (/\ IsSome(outcome[i])
         /\ \E j \in 1..Len(stream) :
               /\ stream[j].type = "ReturnZomeFunctionResult"
               /\ stream[j].response.result = Unwrap(outcome[i])) =>
            \E j \in 1..Len(stream) :
                stream[j] = [type |-> "ReturnZomeFunctionResult",
                             response |->
                               ExecuteZomeFnResponse(calls[i], Unwrap(outcome[i]))]

\* two calls were in flight together, the later one returned first, one ended Ok
\* and the other with the function's error
C24_Witness ==
    \E i \in CallIds : \E k \in CallIds :
        /\ i < k
        /\ IsSome(outcome[i]) /\ Unwrap(outcome[i]) = Ok(<< "json", i >>)
        /\ IsSome(outcome[k]) /\ Unwrap(outcome[k]) = Err(<< "ribosome error", k >>)
        /\ \E a \in ReturnsOf(k) : \E b \in ReturnsOf(i) : a < b


(***************************************************************************)
(* Reading the keystore's last operation                                   *)
(***************************************************************************)
DeriveOps == {"add_seed_from_seed", "add_key_from_seed"}

\* every identifier stored before the step is stored after it with the same secret
StoredSecretsKept ==
    \A id \in DOMAIN keys : id \in DOMAIN keys' /\ keys'[id] = keys[id]

(***************************************************************************)
(* C31: add_random_seed, add_seed_from_seed and add_key_from_seed fail     *)
(* with "identifier already exists" when the destination is stored, also   *)
(* when the source is unknown; the derive operations with a free           *)
(* destination, and sign, fail with "unknown source identifier" when the   *)
(* source is not stored; a failing operation leaves the keystore as it     *)
(* was, and no operation overwrites or removes a stored identifier.        *)
(***************************************************************************)
C31_IdentifierChecks ==
    [][IsSome(ks_last') =>
         LET r == Unwrap(ks_last')
         IN  /\ (r.op \in DeriveOps \cup {"add_random_seed"} /\ r.dst \in DOMAIN keys) =>
                   r.result = IdentifierExists
             /\ (r.op \in DeriveOps /\ r.dst \notin DOMAIN keys /\ r.src \notin DOMAIN keys) =>
                   r.result = UnknownSource
             /\ (r.op = "sign" /\ r.src \notin DOMAIN keys) => r.result = UnknownSource
             /\ r.result.tag = "Err" => keys' = keys
             /\ StoredSecretsKept]_vars

\* a derivation named a stored destination and an unknown source
C31_Witness ==
    /\ IsSome(ks_last)
    /\ Unwrap(ks_last).op = "add_key_from_seed"
    /\ Unwrap(ks_last).dst \in DOMAIN keys
    /\ Unwrap(ks_last).src \notin DOMAIN keys
    /\ Unwrap(ks_last).result = IdentifierExists

(***************************************************************************)
(* C32: add_seed_from_seed succeeds only from a root seed,                 *)
(* add_key_from_seed only from a root seed or an indexed seed, sign only   *)
(* with a key; with a source of another kind the operation returns an      *)
(* error and stores nothing; every stored identifier keeps its kind.       *)
(***************************************************************************)
C32_KindsRespected ==
    [][IsSome(ks_last') =>
         LET r == Unwrap(ks_last')
             SourceKinds(op) ==
                 IF op = "add_seed_from_seed" THEN {"RootSeed"}
                 ELSE IF op = "add_key_from_seed" THEN {"RootSeed", "IndexedSeed"}
                 ELSE {"Key"}
         IN  /\ (r.op # "add_random_seed" /\ r.result.tag = "Ok") =>
                   /\ r.src \in DOMAIN keys
                   /\ keys[r.src].kind \in SourceKinds(r.op)
             /\ (/\ r.op # "add_random_seed"
                 /\ r.src \in DOMAIN keys
                 /\ keys[r.src].kind \notin SourceKinds(r.op)) =>
                   /\ r.result.tag = "Err"
                   /\ keys' = keys
             /\ (r.op = "add_random_seed" /\ r.result.tag = "Ok") =>
                   keys'[r.dst].kind = "RootSeed"
             /\ (r.op = "add_seed_from_seed" /\ r.result.tag = "Ok") =>
                   keys'[r.dst].kind = "IndexedSeed"
             /\ (r.op = "add_key_from_seed" /\ r.result.tag = "Ok") =>
                   keys'[r.dst].kind = "Key"
             /\ \A id \in DOMAIN keys :
                   id \in DOMAIN keys' /\ keys'[id].kind = keys[id].kind]_vars

\* a seed was asked of an indexed seed, with a free destination
C32_Witness ==
    /\ IsSome(ks_last)
    /\ Unwrap(ks_last).op = "add_seed_from_seed"
    /\ Unwrap(ks_last).src \in DOMAIN keys
    /\ keys[Unwrap(ks_last).src].kind = "IndexedSeed"
    /\ Unwrap(ks_last).dst \notin DOMAIN keys
    /\ Unwrap(ks_last).result = Err(<< "source secret is not a root seed" >>)


(***************************************************************************)
(* Counting commits and emitted Publish signals                            *)
(***************************************************************************)
\* the steps that emitted a signal headed Publish(a)
PublishSignals(a) ==
    { j \in Steps : IsSome(trace[j].out) /\ Unwrap(trace[j].out).event = EvPublish(a) }

\* the steps that processed a Commit of a non-agent entry with address a
CommitsOf(a) == { i \in Steps : IsCommitOf(i, a) }

(***************************************************************************)
(* C33: after any sequence of actions the signals headed Publish(a) that   *)
(* were emitted are at most as many as the non-agent Commit actions for a, *)
(* and each of them was emitted by a Publish(a) that has before it a       *)
(* Commit for a with no Publish(a) in between.                             *)
(***************************************************************************)
C33_PublishNeedsCommit ==
    \A a \in Addresses :
        /\ Cardinality(PublishSignals(a)) <= Cardinality(CommitsOf(a))
        /\ \A j \in PublishSignals(a) :
              /\ IsPublishOf(j, a)
              /\ \E i \in CommitsOf(a) :
                    /\ i < j
                    /\ \A k \in (i + 1)..(j - 1) : ~IsPublishOf(k, a)

\* one Commit, then two Publish of its address: one signal only
C33_Witness ==
    \E a \in Addresses :
        /\ Len(trace) = 3
        /\ IsCommitOf(1, a)
        /\ IsPublishOf(2, a)
        /\ IsPublishOf(3, a)
        /\ PublishSignals(a) = {2}

(***************************************************************************)
(* C34: in every reachable state each signal in the commit cache under an  *)
(* address a has the headline Publish(a), Hold(a) as its first pending     *)
(* event, one or two pending events, all of the group Validators.          *)
(***************************************************************************)
C34_CacheShape ==
    \A a \in DOMAIN commit_cache :
        LET signal == commit_cache[a]
        IN  /\ signal.event = EvPublish(a)
            /\ Len(signal.pending) \in {1, 2}
            /\ signal.pending[1].event = EvHold(a)
            /\ \A n \in 1..Len(signal.pending) : signal.pending[n].group = "Validators"

\* two signals are cached, one with a type-specific effect and one without
C34_Witness ==
    \E a \in DOMAIN commit_cache : \E b \in DOMAIN commit_cache :
        /\ Len(commit_cache[a].pending) = 1
        /\ Len(commit_cache[b].pending) = 2

(***************************************************************************)
(* C35: an action other than Commit and Publish leaves the commit cache    *)
(* and the agent id as they were; a Commit or Publish for an address a     *)
(* leaves every cache entry but that of a as it was; an entry leaves the   *)
(* cache only by a Publish of its address.                                 *)
(***************************************************************************)
C35_OnlyCommitAndPublish ==
    \A i \in Steps :
        LET action == trace[i].action
            before == trace[i].before
            after == trace[i].after
            Others(a) ==
                \A x \in ((DOMAIN before) \cup (DOMAIN after)) \ {a} :
                    x \in DOMAIN before /\ x \in DOMAIN after /\ after[x] = before[x]
        IN  /\ action.type \notin {"Commit", "Publish"} =>
                  after = before /\ trace[i].agent_after = trace[i].agent_before
            /\ action.type = "Commit" => Others(address(action.entry))
            /\ action.type = "Publish" => Others(action.addr)
            /\ \A x \in (DOMAIN before) \ (DOMAIN after) : IsPublishOf(i, x)

\* with a commit waiting, an effect action and a Commit of another address passed
C35_Witness ==
    /\ Len(trace) = 3
    /\ trace[1].action.type = "Commit"
    /\ trace[1].after # << >>
    /\ trace[2].action.type = "Hold"
    /\ trace[2].after = trace[1].after
    /\ trace[3].action.type = "Commit"
    /\ Cardinality(DOMAIN commit_cache) = 2

(***************************************************************************)
(* C36: a Commit of the agent entry is not cached: a Publish of the agent  *)
(* entry's address that follows emits no signal, unless a non-agent Commit *)
(* for that address was processed as well.                                 *)
(***************************************************************************)
C36_AgentCommitNotPublished ==
    \A i \in Steps :
        (trace[i].action.type = "Commit" /\ trace[i].action.entry.kind = "AgentId") =>
            LET a == address(trace[i].action.entry)
            IN  /\ a \in DOMAIN trace[i].after => a \in DOMAIN trace[i].before
                /\ \A j \in Steps :
                      (/\ i < j
                       /\ IsPublishOf(j, a)
                       /\ \A k \in 1..(j - 1) : ~IsCommitOf(k, a)) => trace[j].out = None

\* the agent entry was committed and then published, where anything would be cached
C36_Witness ==
    /\ Len(trace) = 2
    /\ trace[1].action.type = "Commit"
    /\ trace[1].action.entry = AgentEntry
    /\ do_cache(AgentEntry, ctx)
    /\ IsPublishOf(2, address(AgentEntry))
    /\ trace[2].out = None


(***************************************************************************)
(* C37: two NetworkState values compare equal exactly when they stem from  *)
(* the same call of NetworkState::new: a clone stays equal to its original *)
(* whatever is changed in either, and two values created separately are    *)
(* never equal, even with the same contents.                               *)
(***************************************************************************)
C37_EqualIffSameOrigin ==
    \A i \in 1..Len(eq_states) : \A j \in 1..Len(eq_states) :
        eq(eq_states[i], eq_states[j]) <=> (eq_states[i].origin = eq_states[j].origin)

\* a changed clone next to its original, and a separately created value with the
\* original's contents
C37_Witness ==
    \E i, j, k \in 1..Len(eq_states) :
        /\ eq_states[i].origin = eq_states[j].origin
        /\ eq_states[i].fields # eq_states[j].fields
        /\ eq_states[i].maps # eq_states[j].maps
        /\ eq(eq_states[i], eq_states[j])
        /\ eq_states[k].origin # eq_states[i].origin
        /\ eq_states[k].fields = eq_states[i].fields
        /\ eq_states[k].maps = eq_states[i].maps
        /\ ~eq(eq_states[k], eq_states[i])


====
